---- MODULE Spec2Model ----
(***************************************************************************)
(* A model of the BachT coordination runtime: the token store, the task    *)
(* queue with its worker and the blackboard facade in front of them, and   *)
(* the small-step agent simulator.                                          *)
(*                                                                          *)
(*   SpecStore  the store alone, driven by tell / ask / get / nask          *)
(*   Spec       clients -> TaskQueue -> worker -> store, with safe_stop     *)
(*   LiveSpec   the same without safe_stop, under the scheduler's fairness  *)
(*   SpecSim    the simulator reducing an agent against the store           *)
(*   SpecSimLive the same, each run being polled until it returns          *)
(*   SpecNotify the TaskQueue alone: waiters in notify() and enqueues       *)
(*   SpecClone  a Blackboard and its clones, each used by one client        *)
(*   SpecFacade send_event against a reply sender held by its caller        *)
(*   SpecParse  the parser applied to a text                                *)
(***************************************************************************)
EXTENDS Integers, Sequences, FiniteSets, TLC

VARIABLES
    \* ---- store (blackboard/store.rs) ----
    the_store,          \* HashMap<Box<str>, u32>: a function on the present keys
    \* ---- store driver: history of the operations applied ----
    twin_store,         \* a second store, equal up to keys of count 0
    init_store,         \* the store the run started from
    tell_count,         \* per token: tell calls so far
    get_count,          \* per token: get calls that returned true
    last_op,            \* the last operation, its results and the stores before it
    \* ---- task queue, worker, facade (core/blackboard) ----
    task_queue,         \* Vec<Task>: index 1 is the head of the Vec
    notifier,           \* tokio Notify: stored permit, waiters, woken waiters
    safe_stop_signal,   \* Mutex<bool>
    worker_pc,          \* the worker's position in job()
    worker_task,        \* the task the worker holds (NoTask if none)
    chan,               \* per task id: the one-shot reply channel
    client_pc,          \* per client: its position in send_event
    client_task,        \* per client: the id of the task it awaits (0 if none)
    events,             \* history: the event of each task, by id (enqueue order)
    deq_log,            \* history: ids in the order get_task returned them
    apply_log,          \* history: <<id, result>> per handle_event call
    send_log,           \* history: <<id, value>> per res_chanel.send call
    replies,            \* history: <<client, id, result>> per completed send_event
    stop_task,          \* history: the id of the task in flight when safe_stop ran (0 if none)
    stop_deq,           \* history: the number of tasks dequeued when safe_stop ran
    \* ---- simulator (cli/simulator.rs) ----
    current_agent,      \* bacht_exec_all's current_agent
    sim_pc,             \* "run" | "done" | "panic"
    sim_result,         \* what bacht_exec_all returned
    invoked,            \* history: the primitives invoked, in order
    last_step,          \* history: the last run_one call and its outcome
    initial_agent,      \* the agent bacht_exec_all was called with
    commit,             \* history: the last step on a "+" agent that progressed
    \* ---- tasks waiting in TaskQueue::notify (core/blackboard/task_queue.rs) ----
    waiter_pc,          \* per waiter: its position around notify().await
    wake_log,           \* history: per enqueue, the waiters suspended when it ran
    \* ---- Blackboard handles (core/blackboard/mod.rs) ----
    bb,                 \* per client: the Blackboard it holds (NoHandle if none)
    other_queue,        \* the tasks of a TaskQueue that is not the worker's
    sent_by,            \* history: per task, who sent it and the replies received before
    \* ---- parser (bacht/bacht_parser.rs) ----
    parse_input,        \* the text given to parse, a sequence of characters
    parse_src,          \* history: how the text was made (the Expr printed, if any)
    parse_pc,           \* "ready" | "done"
    parse_result        \* what parse returned

storeDriverVars == <<twin_store, init_store, tell_count, get_count, last_op>>
queueVars == <<task_queue, notifier, safe_stop_signal, worker_pc, worker_task, chan,
               client_pc, client_task, events, deq_log, apply_log, send_log, replies,
               stop_task, stop_deq>>
simVars == <<current_agent, sim_pc, sim_result, invoked, last_step, initial_agent,
             commit>>
notifyVars == <<waiter_pc, wake_log>>
cloneVars == <<bb, other_queue, sent_by>>
parseVars == <<parse_input, parse_src, parse_pc, parse_result>>
unitVars == <<notifyVars, cloneVars, parseVars>>
vars == <<the_store, storeDriverVars, queueVars, simVars, unitVars>>

(***************************************************************************)
(* u32 counts.  TLC's integers stop below 2^32, so a u32 is kept as two     *)
(* 16-bit halves: the value of [hi |-> h, lo |-> l] is h * 2^16 + l.        *)
(***************************************************************************)
Half == 65536

u32(n) == [hi |-> n \div Half, lo |-> n % Half]

u32_MAX == [hi |-> Half - 1, lo |-> Half - 1]

u32_lt(a, b) == a.hi < b.hi \/ (a.hi = b.hi /\ a.lo < b.lo)

\* n + 1 on 32 bits (wrapping; the callers guard against the overflow)
u32_add1(n) ==
    IF n.lo < Half - 1 THEN [hi |-> n.hi, lo |-> n.lo + 1]
    ELSE [hi |-> (n.hi + 1) % Half, lo |-> 0]

\* n - 1 on 32 bits (wrapping; the callers guard against the underflow)
u32_sub1(n) ==
    IF n.lo > 0 THEN [hi |-> n.hi, lo |-> n.lo - 1]
    ELSE [hi |-> (n.hi + Half - 1) % Half, lo |-> Half - 1]

(***************************************************************************)
(* The store                                                                *)
(***************************************************************************)
Tokens == {"a", "b"}

EmptyStore == <<>>

\* Variant: the increment without its guard
safe_inc_wraps(nbr) == u32_add1(nbr)

safe_inc(nbr) == IF u32_lt(nbr, u32_MAX) THEN u32_add1(nbr) ELSE nbr

\* Variant: or_insert(0) in place of or_insert(1)
tell_inserts_zero(s, token) ==
    [st |-> IF token \in DOMAIN s
              THEN [s EXCEPT ![token] = safe_inc(s[token])]
              ELSE s @@ (token :> u32(0)),
     res |-> TRUE]

\* entry(token).and_modify(safe_inc).or_insert(1); true
tell(s, token) ==
    [st |-> IF token \in DOMAIN s
              THEN [s EXCEPT ![token] = safe_inc(s[token])]
              ELSE s @@ (token :> u32(1)),
     res |-> TRUE]

ask(s, token) ==
    [st |-> s,
     res |-> IF token \notin DOMAIN s THEN FALSE ELSE u32_lt(u32(0), s[token])]

\* Variant: the entry completed with or_insert(0)
get_inserts_key(s, token) ==
    IF token \in DOMAIN s /\ u32_lt(u32(0), s[token])
      THEN [st |-> [s EXCEPT ![token] = u32_sub1(s[token])], res |-> TRUE]
      ELSE [st |-> IF token \in DOMAIN s THEN s ELSE s @@ (token :> u32(0)),
            res |-> FALSE]

\* Variant: the guard written *n > 1
get_above_one(s, token) ==
    IF token \in DOMAIN s /\ u32_lt(u32(1), s[token])
      THEN [st |-> [s EXCEPT ![token] = u32_sub1(s[token])], res |-> TRUE]
      ELSE [st |-> s, res |-> FALSE]

\* Variant: a failed get clears the key it found spent
get_removes_spent_key(s, token) ==
    IF token \in DOMAIN s /\ u32_lt(u32(0), s[token])
      THEN [st |-> [s EXCEPT ![token] = u32_sub1(s[token])], res |-> TRUE]
      ELSE [st |-> [t \in DOMAIN s \ {token} |-> s[t]], res |-> FALSE]

\* Variant: the occurrence is granted and left in the store
get_without_decrement(s, token) ==
    [st |-> s,
     res |-> IF token \notin DOMAIN s THEN FALSE ELSE u32_lt(u32(0), s[token])]

\* entry(token).and_modify(|n| if *n > 0 { *n -= 1; res = true }); res
get(s, token) ==
    IF token \in DOMAIN s /\ u32_lt(u32(0), s[token])
      THEN [st |-> [s EXCEPT ![token] = u32_sub1(s[token])], res |-> TRUE]
      ELSE [st |-> s, res |-> FALSE]

\* Variant: only the contains_key test
nask_absence_only(s, token) == [st |-> s, res |-> token \notin DOMAIN s]

nask(s, token) ==
    [st |-> s,
     res |-> IF token \notin DOMAIN s THEN TRUE ELSE ~u32_lt(u32(0), s[token])]

Prims == {"tell", "ask", "get", "nask"}

\* The store method a primitive / action names
store_op(s, prim, token) ==
    CASE prim = "tell" -> tell(s, token)
      [] prim = "ask"  -> ask(s, token)
      [] prim = "nask" -> nask(s, token)
      [] prim = "get"  -> get(s, token)

\* The count a token stands for: an absent key reads as 0
count(s, token) == IF token \in DOMAIN s THEN s[token] ELSE u32(0)

(***************************************************************************)
(* SpecStore: the store driven directly, one method call per step, from     *)
(* any store new_with_data can build.  A twin store, equal up to keys of    *)
(* count 0, receives the same calls.                                        *)
(***************************************************************************)
MaxStoreOps == 3

StoreCounts == {u32(0), u32(1), u32_sub1(u32_MAX), u32_MAX}

InitStores == UNION {[K -> StoreCounts] : K \in SUBSET Tokens}

\* The two stores hold the same count for every token
SameCounts(s1, s2) == \A t \in Tokens : count(s1, t) = count(s2, t)

NoOp == [n |-> 0, token |-> "", res |-> FALSE, op |-> "none",
         twin_res |-> FALSE, pre |-> EmptyStore, twin_pre |-> EmptyStore]

StoreDriverIdle ==
    /\ twin_store = EmptyStore
    /\ init_store = EmptyStore
    /\ tell_count = [t \in Tokens |-> 0]
    /\ get_count = [t \in Tokens |-> 0]
    /\ last_op = NoOp

\* One call of a store method on the store and on its twin
StoreCall(prim, token) ==
    LET r == store_op(the_store, prim, token)
        r2 == store_op(twin_store, prim, token)
    IN  /\ last_op.n < MaxStoreOps
        /\ the_store' = r.st
        /\ twin_store' = r2.st
        /\ last_op' = [n |-> last_op.n + 1, token |-> token, res |-> r.res, op |-> prim,
                       twin_res |-> r2.res, pre |-> the_store, twin_pre |-> twin_store]
        /\ tell_count' = IF prim = "tell"
                           THEN [tell_count EXCEPT ![token] = @ + 1] ELSE tell_count
        /\ get_count' = IF prim = "get" /\ r.res
                          THEN [get_count EXCEPT ![token] = @ + 1] ELSE get_count
        /\ UNCHANGED <<init_store, queueVars, simVars, unitVars>>

StoreTell == \E t \in Tokens : StoreCall("tell", t)

StoreAsk == \E t \in Tokens : StoreCall("ask", t)

StoreGet == \E t \in Tokens : StoreCall("get", t)

StoreNask == \E t \in Tokens : StoreCall("nask", t)

NextStore == StoreTell \/ StoreAsk \/ StoreGet \/ StoreNask

(***************************************************************************)
(* Task queue (core/blackboard/task_queue.rs)                               *)
(***************************************************************************)
MaxTasks == 3

MaxDrops == 1

Clients == {"c1", "c2"}

QueueTokens == {"a"}

NoTask == [id |-> 0]

Event(action, token) == [token |-> token, action |-> action]

\* Task::new: the task holds the sender, the caller gets the receiver
NewChannel == [tx |-> "held", val |-> FALSE, rx |-> "open"]

NewNotify == [permit |-> FALSE, waiters |-> <<>>, woken |-> {}]

\* Variant: a notification nobody waits for is lost (a condition variable's signal)
notify_one_no_permit(n) ==
    IF n.waiters # <<>>
      THEN [n EXCEPT !.waiters = Tail(@), !.woken = @ \cup {Head(n.waiters)}]
      ELSE n

\* Variant: every waiter is woken (Notify::notify_waiters), or the permit stored
notify_one_wakes_all(n) ==
    IF n.waiters # <<>>
      THEN [n EXCEPT !.waiters = <<>>,
                     !.woken = @ \cup {n.waiters[i] : i \in DOMAIN n.waiters}]
      ELSE [n EXCEPT !.permit = TRUE]

\* tokio Notify::notify_one: wake the oldest waiter, or store the one permit
notify_one(n) ==
    IF n.waiters # <<>>
      THEN [n EXCEPT !.waiters = Tail(@), !.woken = @ \cup {Head(n.waiters)}]
      ELSE [n EXCEPT !.permit = TRUE]

\* Variant: queue.push(task)
queue_insert_at_end(queue, task) == Append(queue, task)

\* queue.insert(0, task)
queue_insert(queue, task) == <<task>> \o queue

\* Variant: queue.last() without removing it
queue_peek(queue) ==
    IF queue = <<>> THEN [queue |-> queue, task |-> NoTask]
    ELSE [queue |-> queue, task |-> queue[Len(queue)]]

\* queue.pop(): the last element of the Vec, None (NoTask) when it is empty
get_task(queue) ==
    IF queue = <<>> THEN [queue |-> queue, task |-> NoTask]
    ELSE [queue |-> SubSeq(queue, 1, Len(queue) - 1), task |-> queue[Len(queue)]]

(***************************************************************************)
(* Facade (core/blackboard/mod.rs): send_event up to its await              *)
(***************************************************************************)
\* Variant: the task is inserted and nobody is notified
send_event_without_notify(c, event) ==
    LET id == Len(events) + 1 IN
    /\ client_pc[c] = "idle"
    /\ Len(events) < MaxTasks
    /\ events' = Append(events, event)
    /\ chan' = Append(chan, NewChannel)
    /\ task_queue' = queue_insert(task_queue, [id |-> id, event |-> event])
    /\ client_pc' = [client_pc EXCEPT ![c] = "await"]
    /\ client_task' = [client_task EXCEPT ![c] = id]
    /\ UNCHANGED <<stop_task, stop_deq, the_store, storeDriverVars, unitVars, simVars, notifier,
                   safe_stop_signal, worker_pc, worker_task, deq_log, apply_log,
                   send_log, replies>>

\* add_event_to_queue under the queue lock, then the caller awaits rx
send_event(c, event) ==
    LET id == Len(events) + 1 IN
    /\ client_pc[c] = "idle"
    /\ Len(events) < MaxTasks
    /\ events' = Append(events, event)
    /\ chan' = Append(chan, NewChannel)
    /\ task_queue' = queue_insert(task_queue, [id |-> id, event |-> event])
    /\ notifier' = notify_one(notifier)
    /\ client_pc' = [client_pc EXCEPT ![c] = "await"]
    /\ client_task' = [client_task EXCEPT ![c] = id]
    /\ UNCHANGED <<stop_task, stop_deq, the_store, storeDriverVars, unitVars, simVars, safe_stop_signal, worker_pc,
                   worker_task, deq_log, apply_log, send_log, replies>>

BlackboardTell == \E c \in Clients, t \in QueueTokens : send_event(c, Event("tell", t))

BlackboardAsk == \E c \in Clients, t \in QueueTokens : send_event(c, Event("ask", t))

BlackboardGet == \E c \in Clients, t \in QueueTokens : send_event(c, Event("get", t))

BlackboardNask == \E c \in Clients, t \in QueueTokens : send_event(c, Event("nask", t))

\* rx.await completes: Ok(b) if a value was sent, ChannelError if the sender is gone
RecvReply ==
    \E c \in Clients :
      LET id == client_task[c] IN
      /\ client_pc[c] = "await"
      /\ chan[id].tx \in {"sent", "dropped"}
      /\ replies' = replies \cup
                       {[id |-> id,
                         result |-> IF chan[id].tx = "sent"
                                      THEN [val |-> chan[id].val, ok |-> TRUE]
                                      ELSE [val |-> FALSE, ok |-> FALSE]]}
      /\ chan' = [chan EXCEPT ![id].rx = "taken"]
      /\ client_pc' = [client_pc EXCEPT ![c] = "idle"]
      /\ client_task' = [client_task EXCEPT ![c] = 0]
      /\ UNCHANGED <<stop_task, stop_deq, the_store, storeDriverVars, unitVars, simVars, task_queue, notifier,
                     safe_stop_signal, worker_pc, worker_task, events,
                     deq_log, apply_log, send_log>>

\* The caller drops the send_event future (a timeout around it): rx is dropped
DropReceiver ==
    \E c \in Clients :
      LET id == client_task[c] IN
      /\ client_pc[c] = "await"
      /\ Cardinality({i \in DOMAIN chan : chan[i].rx = "dropped"}) < MaxDrops
      /\ chan' = [chan EXCEPT ![id].rx = "dropped"]
      /\ client_pc' = [client_pc EXCEPT ![c] = "idle"]
      /\ client_task' = [client_task EXCEPT ![c] = 0]
      /\ UNCHANGED <<stop_task, stop_deq, the_store, storeDriverVars, unitVars, simVars, task_queue, notifier,
                     safe_stop_signal, worker_pc, worker_task, events,
                     deq_log, apply_log, send_log, replies>>

(***************************************************************************)
(* Worker (core/blackboard/worker.rs)                                       *)
(***************************************************************************)
\* Variant: the Nask arm calling store.ask
handle_event_nask_as_ask(s, e) ==
    CASE e.action = "tell" -> tell(s, e.token)
      [] e.action = "ask"  -> ask(s, e.token)
      [] e.action = "nask" -> ask(s, e.token)
      [] e.action = "get"  -> get(s, e.token)

\* EventHandler::handle_event: dispatch on the action to the store method
handle_event(s, e) ==
    CASE e.action = "tell" -> tell(s, e.token)
      [] e.action = "ask"  -> ask(s, e.token)
      [] e.action = "nask" -> nask(s, e.token)
      [] e.action = "get"  -> get(s, e.token)

\* Worker::safe_stop
SafeStop ==
    /\ ~safe_stop_signal
    /\ safe_stop_signal' = TRUE
    /\ stop_task' = worker_task.id
    /\ stop_deq' = Len(deq_log)
    /\ UNCHANGED <<the_store, storeDriverVars, unitVars, simVars, task_queue, notifier, worker_pc,
                   worker_task, chan, client_pc, client_task, events, deq_log,
                   apply_log, send_log, replies>>

\* Variant: the worker returns when it finds the queue empty
WorkerGetTask_returns_on_empty ==
    LET r == get_task(task_queue) IN
    /\ worker_pc = "get_task"
    /\ task_queue' = r.queue
    /\ worker_task' = r.task
    /\ worker_pc' = IF r.task = NoTask THEN "returned" ELSE "handle"
    /\ deq_log' = IF r.task = NoTask THEN deq_log ELSE Append(deq_log, r.task.id)
    /\ UNCHANGED <<stop_task, stop_deq, the_store, storeDriverVars, unitVars, simVars, notifier,
                   safe_stop_signal, chan, client_pc, client_task, events, apply_log,
                   send_log, replies>>

\* job, line 82: let task = task_queue.get_task(); None breaks out of the drain loop
WorkerGetTask ==
    LET r == get_task(task_queue) IN
    /\ worker_pc = "get_task"
    /\ task_queue' = r.queue
    /\ worker_task' = r.task
    /\ worker_pc' = IF r.task = NoTask THEN "notify" ELSE "handle"
    /\ deq_log' = IF r.task = NoTask THEN deq_log ELSE Append(deq_log, r.task.id)
    /\ UNCHANGED <<stop_task, stop_deq, the_store, storeDriverVars, unitVars, simVars, notifier, safe_stop_signal, chan,
                   client_pc, client_task, events, apply_log, send_log, replies>>

\* Variant: a task whose receiver is gone is discarded without being handled
WorkerHandle_skips_dropped ==
    LET id == worker_task.id
        r == handle_event(the_store, worker_task.event)
    IN
    /\ worker_pc = "handle"
    /\ IF chan[id].rx = "dropped"
         THEN /\ chan' = [chan EXCEPT ![id].tx = "dropped"]
              /\ UNCHANGED <<the_store, apply_log, send_log>>
         ELSE /\ the_store' = r.st
              /\ apply_log' = Append(apply_log, [res |-> r.res, id |-> id])
              /\ send_log' = Append(send_log, [id |-> id, val |-> r.res, delivered |-> TRUE])
              /\ chan' = [chan EXCEPT ![id].tx = "sent", ![id].val = r.res]
    /\ worker_task' = NoTask
    /\ worker_pc' = "check_stop"
    /\ UNCHANGED <<stop_task, stop_deq, storeDriverVars, unitVars, simVars, task_queue, notifier,
                   safe_stop_signal, client_pc, client_task, events, deq_log, replies>>

\* Variant: the stop flag tested before the task is handled; the task is dropped
WorkerHandle_stop_cancels ==
    LET id == worker_task.id
        r == handle_event(the_store, worker_task.event)
    IN
    /\ worker_pc = "handle"
    /\ IF safe_stop_signal
         THEN /\ chan' = [chan EXCEPT ![id].tx = "dropped"]
              /\ worker_pc' = "returned"
              /\ UNCHANGED <<the_store, apply_log, send_log>>
         ELSE /\ the_store' = r.st
              /\ apply_log' = Append(apply_log, [res |-> r.res, id |-> id])
              /\ send_log' = Append(send_log, [id |-> id, val |-> r.res,
                                               delivered |-> chan[id].rx # "dropped"])
              /\ chan' = IF chan[id].rx = "dropped"
                           THEN [chan EXCEPT ![id].tx = "dropped"]
                           ELSE [chan EXCEPT ![id].tx = "sent", ![id].val = r.res]
              /\ worker_pc' = "check_stop"
    /\ worker_task' = NoTask
    /\ UNCHANGED <<stop_task, stop_deq, storeDriverVars, unitVars, simVars, task_queue, notifier,
                   safe_stop_signal, client_pc, client_task, events, deq_log, replies>>

\* job, lines 86-92: handle_event on the store, then res_chanel.send(Ok(result));
\* the send fails, and is ignored, when the receiver is gone
WorkerHandle ==
    LET id == worker_task.id
        r == handle_event(the_store, worker_task.event)
    IN
    /\ worker_pc = "handle"
    /\ the_store' = r.st
    /\ apply_log' = Append(apply_log, [res |-> r.res, id |-> id])
    /\ send_log' = Append(send_log, [id |-> id, val |-> r.res,
                                     delivered |-> chan[id].rx # "dropped"])
    /\ chan' = IF chan[id].rx = "dropped"
                 THEN [chan EXCEPT ![id].tx = "dropped"]
                 ELSE [chan EXCEPT ![id].tx = "sent", ![id].val = r.res]
    /\ worker_task' = NoTask
    /\ worker_pc' = "check_stop"
    /\ UNCHANGED <<stop_task, stop_deq, storeDriverVars, unitVars, simVars, task_queue, notifier, safe_stop_signal,
                   client_pc, client_task, events, deq_log, replies>>

\* Variant: no stop check inside the drain loop, the queue is drained first
WorkerCheckStop_drains_on ==
    /\ worker_pc = "check_stop"
    /\ worker_pc' = "get_task"
    /\ UNCHANGED <<stop_task, stop_deq, the_store, storeDriverVars, unitVars, simVars,
                   task_queue, notifier, safe_stop_signal, worker_task, chan, client_pc,
                   client_task, events, deq_log, apply_log, send_log, replies>>

\* job, lines 97-100: the stop check inside the drain loop
WorkerCheckStop ==
    /\ worker_pc = "check_stop"
    /\ worker_pc' = IF safe_stop_signal THEN "returned" ELSE "get_task"
    /\ UNCHANGED <<stop_task, stop_deq, the_store, storeDriverVars, unitVars, simVars, task_queue, notifier,
                   safe_stop_signal, worker_task, chan, client_pc, client_task, events,
                   deq_log, apply_log, send_log, replies>>

\* job, line 102: task_queue.notify().await, first poll: take the permit or wait
WorkerNotify ==
    /\ worker_pc = "notify"
    /\ IF notifier.permit
         THEN /\ notifier' = [notifier EXCEPT !.permit = FALSE]
              /\ worker_pc' = "check_stop_after_notify"
         ELSE /\ notifier' = [notifier EXCEPT !.waiters = Append(@, "worker")]
              /\ worker_pc' = "notified_wait"
    /\ UNCHANGED <<stop_task, stop_deq, the_store, storeDriverVars, unitVars, simVars, task_queue, safe_stop_signal,
                   worker_task, chan, client_pc, client_task, events, deq_log,
                   apply_log, send_log, replies>>

\* job, line 102: the suspended worker was woken by a notify_one
WorkerWake ==
    /\ worker_pc = "notified_wait"
    /\ "worker" \in notifier.woken
    /\ notifier' = [notifier EXCEPT !.woken = @ \ {"worker"}]
    /\ worker_pc' = "check_stop_after_notify"
    /\ UNCHANGED <<stop_task, stop_deq, the_store, storeDriverVars, unitVars, simVars, task_queue, safe_stop_signal,
                   worker_task, chan, client_pc, client_task, events, deq_log,
                   apply_log, send_log, replies>>

\* job, lines 103-107: the stop check after a wake; cancel_notification on stop
WorkerCheckStopAfterNotify ==
    /\ worker_pc = "check_stop_after_notify"
    /\ IF safe_stop_signal
         THEN /\ notifier' = notify_one(notifier)
              /\ worker_pc' = "returned"
         ELSE /\ notifier' = notifier
              /\ worker_pc' = "get_task"
    /\ UNCHANGED <<stop_task, stop_deq, the_store, storeDriverVars, unitVars, simVars, task_queue, safe_stop_signal,
                   worker_task, chan, client_pc, client_task, events, deq_log,
                   apply_log, send_log, replies>>

Worker ==
    \/ WorkerGetTask
    \/ WorkerHandle
    \/ WorkerCheckStop
    \/ WorkerNotify
    \/ WorkerWake
    \/ WorkerCheckStopAfterNotify

\* Blackboard::new: empty store and queue, the worker spawned at the top of job
QueueInit ==
    /\ task_queue = <<>>
    /\ notifier = NewNotify
    /\ safe_stop_signal = FALSE
    /\ worker_pc = "get_task"
    /\ worker_task = NoTask
    /\ chan = <<>>
    /\ client_pc = [c \in Clients |-> "idle"]
    /\ client_task = [c \in Clients |-> 0]
    /\ events = <<>>
    /\ deq_log = <<>>
    /\ apply_log = <<>>
    /\ send_log = <<>>
    /\ replies = {}
    /\ stop_task = 0
    /\ stop_deq = 0

(***************************************************************************)
(* The TaskQueue on its own (core/blackboard/task_queue.rs): tasks that     *)
(* wait in notify() while events are enqueued, no worker taking them out    *)
(***************************************************************************)
MaxEnqueues == 3

Waiters == {"w1", "w2", "w3"}

NotifyIdle ==
    /\ waiter_pc = [w \in Waiters |-> "unspawned"]
    /\ wake_log = <<>>

(***************************************************************************)
(* Blackboard handles (core/blackboard/mod.rs).  A Blackboard is three      *)
(* references: to the queue and the store (each an Arc inside) and to the   *)
(* worker (an Arc).  Reference 1 is the object made by Blackboard::new; the *)
(* model's task_queue, the_store and worker variables are those objects.    *)
(***************************************************************************)
NoHandle == [task_queue |-> 0, worker |-> 0, store |-> 0]

\* Blackboard::new: one queue, one store, one worker built on clones of both
BlackboardNew == [task_queue |-> 1, worker |-> 1, store |-> 1]

\* Variant: the clone gets a TaskQueue::new() of its own
clone_with_new_queue(h) ==
    [task_queue |-> h.task_queue + 1, worker |-> h.worker, store |-> h.store]

\* Blackboard::clone: task_queue.clone(), Arc::clone(&worker), store.clone()
clone(h) == [task_queue |-> h.task_queue, worker |-> h.worker, store |-> h.store]

CloneIdle ==
    /\ bb = [c \in Clients |-> NoHandle]
    /\ other_queue = <<>>
    /\ sent_by = <<>>

\* let cloned_bb = bb.clone(), handed to a client that has no handle yet
BlackboardClone ==
    \E c \in Clients, d \in Clients :
      /\ bb[c] # NoHandle
      /\ bb[d] = NoHandle
      /\ bb' = [bb EXCEPT ![d] = clone(bb[c])]
      /\ UNCHANGED <<the_store, storeDriverVars, queueVars, simVars, notifyVars,
                     parseVars, other_queue, sent_by>>

\* send_event through the handle of client c, up to its await: the task goes to the
\* queue the handle refers to
handle_send_event(c, event) ==
    LET id == Len(events) + 1
        task == [id |-> id, event |-> event]
    IN
    /\ bb[c] # NoHandle
    /\ client_pc[c] = "idle"
    /\ Len(events) < MaxTasks
    /\ events' = Append(events, event)
    /\ chan' = Append(chan, NewChannel)
    /\ IF bb[c].task_queue = BlackboardNew.task_queue
         THEN /\ task_queue' = queue_insert(task_queue, task)
              /\ notifier' = notify_one(notifier)
              /\ UNCHANGED other_queue
         ELSE /\ other_queue' = queue_insert(other_queue, task)
              /\ UNCHANGED <<task_queue, notifier>>
    /\ client_pc' = [client_pc EXCEPT ![c] = "await"]
    /\ client_task' = [client_task EXCEPT ![c] = id]
    /\ sent_by' = Append(sent_by, [by |-> c, after |-> {r.id : r \in replies}])
    /\ UNCHANGED <<stop_task, stop_deq, the_store, storeDriverVars, simVars, notifyVars, parseVars, bb,
                   safe_stop_signal, worker_pc, worker_task, deq_log, apply_log,
                   send_log, replies>>

HandleTell == \E c \in Clients, t \in QueueTokens : handle_send_event(c, Event("tell", t))

HandleAsk == \E c \in Clients, t \in QueueTokens : handle_send_event(c, Event("ask", t))

HandleGet == \E c \in Clients, t \in QueueTokens : handle_send_event(c, Event("get", t))

HandleNask == \E c \in Clients, t \in QueueTokens : handle_send_event(c, Event("nask", t))

(***************************************************************************)
(* send_event's result (core/blackboard/mod.rs), with the reply sender in   *)
(* the hands of the caller as in the facade's tests: what is sent is any    *)
(* Result<bool, TaskError> the repository sends, or nothing at all.  Here   *)
(* the value of a channel is the Result sent on it.                         *)
(***************************************************************************)
Ok(b) == [val |-> b, ok |-> TRUE, err |-> "none"]

Err(e) == [val |-> FALSE, ok |-> FALSE, err |-> e]

\* What the worker and the tests send: Ok(result), Err(TaskError::UnspecifiedError)
SentResults == {Ok(TRUE), Ok(FALSE), Err("UnspecifiedError")}

\* Variant: every error that arrives is reported as a ChannelError
send_event_result_flattens(ch) ==
    IF ch.tx = "sent" /\ ch.val.ok THEN ch.val ELSE Err("ChannelError")

\* rx.await then unwrap_or_else: the Result received, Err(ChannelError) on RecvError
send_event_result(ch) ==
    IF ch.tx = "sent" THEN ch.val ELSE Err("ChannelError")

\* tx.send(result) by the holder of the sender
TestSend ==
    \E id \in DOMAIN chan, r \in SentResults :
      /\ chan[id].tx = "held"
      /\ chan' = [chan EXCEPT ![id].tx = "sent", ![id].val = r]
      /\ UNCHANGED <<the_store, storeDriverVars, simVars, unitVars, task_queue, notifier,
                     safe_stop_signal, worker_pc, worker_task, client_pc, client_task,
                     events, deq_log, apply_log, send_log, replies, stop_task, stop_deq>>

\* drop(tx)
TestDropSender ==
    \E id \in DOMAIN chan :
      /\ chan[id].tx = "held"
      /\ chan' = [chan EXCEPT ![id].tx = "dropped"]
      /\ UNCHANGED <<the_store, storeDriverVars, simVars, unitVars, task_queue, notifier,
                     safe_stop_signal, worker_pc, worker_task, client_pc, client_task,
                     events, deq_log, apply_log, send_log, replies, stop_task, stop_deq>>

\* send_event after its await: the caller gets send_event_result
FacadeReturn ==
    \E c \in Clients :
      LET id == client_task[c] IN
      /\ client_pc[c] = "await"
      /\ chan[id].tx \in {"sent", "dropped"}
      /\ replies' = replies \cup {[id |-> id, result |-> send_event_result(chan[id])]}
      /\ chan' = [chan EXCEPT ![id].rx = "taken"]
      /\ client_pc' = [client_pc EXCEPT ![c] = "idle"]
      /\ client_task' = [client_task EXCEPT ![c] = 0]
      /\ UNCHANGED <<the_store, storeDriverVars, simVars, unitVars, task_queue, notifier,
                     safe_stop_signal, worker_pc, worker_task, events, deq_log,
                     apply_log, send_log, stop_task, stop_deq>>

\* No text has been given to the parser
NoParse == [ok |-> FALSE, err |-> "none", ast |-> [kind |-> "none"]]

ParseIdle ==
    /\ parse_input = <<>>
    /\ parse_src = [kind |-> "none"]
    /\ parse_pc = "idle"
    /\ parse_result = NoParse

UnitIdle == NotifyIdle /\ CloneIdle /\ ParseIdle

\* add_event_to_queue: Task::new, queue.insert(0, task), notifier.notify_one(); the
\* receiver it returns is dropped by the caller
add_event_to_queue(event) ==
    LET id == Len(events) + 1 IN
    /\ Len(events) < MaxEnqueues
    /\ events' = Append(events, event)
    /\ chan' = Append(chan, [NewChannel EXCEPT !.rx = "dropped"])
    /\ task_queue' = queue_insert(task_queue, [id |-> id, event |-> event])
    /\ notifier' = notify_one(notifier)
    /\ wake_log' = Append(wake_log, {w \in Waiters : \E i \in DOMAIN notifier.waiters :
                                                      notifier.waiters[i] = w})
    /\ UNCHANGED <<the_store, storeDriverVars, simVars, cloneVars, parseVars, waiter_pc, safe_stop_signal,
                   worker_pc, worker_task, client_pc, client_task, deq_log, apply_log,
                   send_log, replies, stop_task, stop_deq>>

AddEvent == \E t \in QueueTokens : add_event_to_queue(Event("tell", t))

\* notify(): notifier.notified().await takes the stored permit, or suspends the task
WaiterNotify ==
    \E w \in Waiters :
      /\ waiter_pc[w] = "spawned"
      /\ IF notifier.permit
           THEN /\ notifier' = [notifier EXCEPT !.permit = FALSE]
                /\ waiter_pc' = [waiter_pc EXCEPT ![w] = "passed"]
           ELSE /\ notifier' = [notifier EXCEPT !.waiters = Append(@, w)]
                /\ waiter_pc' = [waiter_pc EXCEPT ![w] = "suspended"]
      /\ UNCHANGED <<the_store, storeDriverVars, simVars, cloneVars, parseVars, wake_log, task_queue,
                     safe_stop_signal, worker_pc, worker_task, chan, client_pc,
                     client_task, events, deq_log, apply_log, send_log, replies,
                     stop_task, stop_deq>>

\* a woken waiter is polled again: notify() returns
WaiterWake ==
    \E w \in Waiters :
      /\ waiter_pc[w] = "suspended"
      /\ w \in notifier.woken
      /\ notifier' = [notifier EXCEPT !.woken = @ \ {w}]
      /\ waiter_pc' = [waiter_pc EXCEPT ![w] = "resumed"]
      /\ UNCHANGED <<the_store, storeDriverVars, simVars, cloneVars, parseVars, wake_log, task_queue,
                     safe_stop_signal, worker_pc, worker_task, chan, client_pc,
                     client_task, events, deq_log, apply_log, send_log, replies,
                     stop_task, stop_deq>>

NextNotify == AddEvent \/ WaiterNotify \/ WaiterWake

(***************************************************************************)
(* Agents (cli/model/data.rs)                                               *)
(***************************************************************************)
BachtAstEmptyAgent == [kind |-> "empty"]

BachtAstPrimitive(prim, token) == [token |-> token, prim |-> prim, kind |-> "prim"]

BachtAstAgent(op, ag_i, ag_ii) == [op |-> op, r |-> ag_ii, kind |-> "op", l |-> ag_i]

Ops == {";", "||", "+"}

(***************************************************************************)
(* Simulator (cli/simulator.rs).  A step is computed as the set of its      *)
(* possible outcomes, one per sequence of coin tosses and per primitive     *)
(* call at which the blackboard may turn out to be gone.  An outcome is     *)
(*   status  "ok" (Ok((res, agent))), "err" (Err(e)) or "panic"             *)
(*   st      the store afterwards                                           *)
(*   log     the primitives invoked, in order, with what each returned      *)
(*   coins   the values rand::random::<bool>() returned, in order           *)
(***************************************************************************)
Call(prim, token, ret) == [token |-> token, prim |-> prim, ret |-> ret]

Outcome(status, res, agent, st, log, coins) ==
    [st |-> st, res |-> res, status |-> status, agent |-> agent, log |-> log,
     coins |-> coins]

\* blackboard.tell / ask / get / nask (.await): the store's answer, or Err when the
\* blackboard is gone
blackboard_call(st, prim, token) ==
    LET r == store_op(st, prim, token) IN
    {[st |-> r.st, res |-> r.res, ok |-> TRUE], [st |-> st, res |-> FALSE, ok |-> FALSE]}

\* exec_primitive: an unknown primitive is an error and reaches no blackboard
exec_primitive(st, prim, token) ==
    IF prim \in Prims THEN blackboard_call(st, prim, token)
    ELSE {[st |-> st, res |-> FALSE, ok |-> FALSE]}

\* Variant: a primitive that succeeded is returned as the residual
run_one_primitive_keeps_agent(st, prim, token) ==
    { IF ~r.ok
        THEN Outcome("err", FALSE, BachtAstEmptyAgent, r.st,
                     <<Call(prim, token, "err")>>, <<>>)
        ELSE Outcome("ok", r.res, BachtAstPrimitive(prim, token), r.st,
                     <<Call(prim, token, IF r.res THEN "true" ELSE "false")>>, <<>>)
      : r \in exec_primitive(st, prim, token) }

run_one_primitive(st, prim, token) ==
    { IF ~r.ok
        THEN Outcome("err", FALSE, BachtAstEmptyAgent, r.st,
                     <<Call(prim, token, "err")>>, <<>>)
        ELSE IF r.res
          THEN Outcome("ok", TRUE, BachtAstEmptyAgent, r.st,
                       <<Call(prim, token, "true")>>, <<>>)
          ELSE Outcome("ok", FALSE, BachtAstPrimitive(prim, token), r.st,
                       <<Call(prim, token, "false")>>, <<>>)
      : r \in exec_primitive(st, prim, token) }

RECURSIVE run_one(_, _)

\* Variant: ag_ii stepped when ag_i fails, as a parallel composition would
run_one_sequence_steps_right(st, ag_i, ag_ii) ==
    UNION { IF o.status = "ok" /\ ~o.res
              THEN { IF o2.status # "ok" THEN [o2 EXCEPT !.log = o.log \o o2.log]
                     ELSE [o2 EXCEPT !.log = o.log \o o2.log,
                                     !.agent = BachtAstAgent(";", o.agent, o2.agent)]
                     : o2 \in run_one(o.st, ag_ii) }
              ELSE { IF o.status # "ok" THEN o
                     ELSE IF o.agent = BachtAstEmptyAgent THEN [o EXCEPT !.agent = ag_ii]
                     ELSE [o EXCEPT !.agent = BachtAstAgent(";", o.agent, ag_ii)] }
            : o \in run_one(st, ag_i) }

\* Variant: when ag_i has run to its end, ag_ii is stepped in the same step
run_one_sequence_runs_on(st, ag_i, ag_ii) ==
    UNION { IF o.status # "ok" THEN {o}
            ELSE IF ~o.res THEN {[o EXCEPT !.agent = BachtAstAgent(";", o.agent, ag_ii)]}
            ELSE IF o.agent = BachtAstEmptyAgent
              THEN { [o2 EXCEPT !.log = o.log \o o2.log, !.coins = o.coins \o o2.coins,
                                !.res = IF o2.status = "ok" THEN TRUE ELSE o2.res,
                                !.agent = IF o2.status = "ok" THEN o2.agent
                                          ELSE BachtAstEmptyAgent]
                     : o2 \in run_one(o.st, ag_ii) }
            ELSE {[o EXCEPT !.agent = BachtAstAgent(";", o.agent, ag_ii)]}
            : o \in run_one(st, ag_i) }

\* Variant: no arm for Ok((true, BachtAstEmptyAgent())), the residual is always rebuilt
run_one_sequence_keeps_empty(st, ag_i, ag_ii) ==
    { IF o.status # "ok" THEN o
      ELSE [o EXCEPT !.agent = BachtAstAgent(";", o.agent, ag_ii)]
      : o \in run_one(st, ag_i) }

\* run_one_sequence: only ag_i is stepped
run_one_sequence(st, ag_i, ag_ii) ==
    { IF o.status # "ok" THEN o
      ELSE IF ~o.res THEN [o EXCEPT !.agent = BachtAstAgent(";", o.agent, ag_ii)]
      ELSE IF o.agent = BachtAstEmptyAgent THEN [o EXCEPT !.agent = ag_ii]
      ELSE [o EXCEPT !.agent = BachtAstAgent(";", o.agent, ag_ii)]
      : o \in run_one(st, ag_i) }

\* Variant: Ok((true, BachtAstEmptyAgent())) of the second branch returned as it is
parallel_second_drops_first(o1, o2) ==
    LET o == [o2 EXCEPT !.log = o1.log \o o2.log, !.coins = o1.coins \o o2.coins] IN
    IF o2.status # "ok" THEN o
    ELSE IF ~o2.res THEN [o EXCEPT !.agent = BachtAstAgent("||", o1.agent, o2.agent)]
    ELSE IF o2.agent = BachtAstEmptyAgent THEN o
    ELSE [o EXCEPT !.agent = BachtAstAgent("||", o1.agent, o2.agent)]

\* Variant: when both branches failed, the second is put first in the residual
parallel_second_swaps(o1, o2) ==
    LET o == [o2 EXCEPT !.log = o1.log \o o2.log, !.coins = o1.coins \o o2.coins] IN
    IF o2.status # "ok" THEN o
    ELSE IF ~o2.res THEN [o EXCEPT !.agent = BachtAstAgent("||", o2.agent, o1.agent)]
    ELSE IF o2.agent = BachtAstEmptyAgent THEN [o EXCEPT !.agent = o1.agent]
    ELSE [o EXCEPT !.agent = BachtAstAgent("||", o1.agent, o2.agent)]

\* The second branch's outcome o2 after the first branch failed with o1
parallel_second(o1, o2) ==
    LET o == [o2 EXCEPT !.log = o1.log \o o2.log, !.coins = o1.coins \o o2.coins] IN
    IF o2.status # "ok" THEN o
    ELSE IF ~o2.res THEN [o EXCEPT !.agent = BachtAstAgent("||", o1.agent, o2.agent)]
    ELSE IF o2.agent = BachtAstEmptyAgent THEN [o EXCEPT !.agent = o1.agent]
    ELSE [o EXCEPT !.agent = BachtAstAgent("||", o1.agent, o2.agent)]

\* Variant: both branches stepped whatever the first returned
parallel_branch_exec_steps_both(st, ag_i, ag_ii) ==
    UNION { IF o1.status # "ok" THEN {o1}
            ELSE { IF o2.status # "ok"
                     THEN [o2 EXCEPT !.log = o1.log \o o2.log,
                                     !.coins = o1.coins \o o2.coins]
                     ELSE [o2 EXCEPT !.log = o1.log \o o2.log,
                                     !.coins = o1.coins \o o2.coins,
                                     !.res = o1.res \/ o2.res,
                                     !.agent =
                                        IF o1.agent = BachtAstEmptyAgent THEN o2.agent
                                        ELSE IF o2.agent = BachtAstEmptyAgent THEN o1.agent
                                        ELSE BachtAstAgent("||", o1.agent, o2.agent)]
                   : o2 \in run_one(o1.st, ag_ii) }
            : o1 \in run_one(st, ag_i) }

\* Variant: ag_ii is not tried when ag_i fails
parallel_branch_exec_first_only(st, ag_i, ag_ii) ==
    UNION { IF o1.status # "ok" THEN {o1}
            ELSE IF ~o1.res THEN {[o1 EXCEPT !.agent = BachtAstAgent("||", o1.agent, ag_ii)]}
            ELSE IF o1.agent = BachtAstEmptyAgent THEN {[o1 EXCEPT !.agent = ag_ii]}
            ELSE {[o1 EXCEPT !.agent = BachtAstAgent("||", o1.agent, ag_ii)]}
            : o1 \in run_one(st, ag_i) }

\* Variant: an error of ag_i taken as a failure, ag_ii is tried after it
parallel_branch_exec_err_as_failure(st, ag_i, ag_ii) ==
    UNION { IF o1.status = "err"
              THEN { parallel_second([o1 EXCEPT !.status = "ok", !.agent = ag_i], o2)
                     : o2 \in run_one(o1.st, ag_ii) }
            ELSE IF o1.status # "ok" THEN {o1}
            ELSE IF ~o1.res
              THEN { parallel_second(o1, o2) : o2 \in run_one(o1.st, ag_ii) }
            ELSE IF o1.agent = BachtAstEmptyAgent THEN {[o1 EXCEPT !.agent = ag_ii]}
            ELSE {[o1 EXCEPT !.agent = BachtAstAgent("||", o1.agent, ag_ii)]}
            : o1 \in run_one(st, ag_i) }

\* Variant: Ok((true, BachtAstEmptyAgent())) of ag_i returned as it is, ag_ii dropped
parallel_branch_exec_drops_second(st, ag_i, ag_ii) ==
    UNION { IF o1.status # "ok" THEN {o1}
            ELSE IF ~o1.res
              THEN { parallel_second(o1, o2) : o2 \in run_one(o1.st, ag_ii) }
            ELSE IF o1.agent = BachtAstEmptyAgent THEN {o1}
            ELSE {[o1 EXCEPT !.agent = BachtAstAgent("||", o1.agent, ag_ii)]}
            : o1 \in run_one(st, ag_i) }

\* parallel_branch_exec: ag_i first, ag_ii only if ag_i made no progress
parallel_branch_exec(st, ag_i, ag_ii) ==
    UNION { IF o1.status # "ok" THEN {o1}
            ELSE IF ~o1.res
              THEN { parallel_second(o1, o2) : o2 \in run_one(o1.st, ag_ii) }
            ELSE IF o1.agent = BachtAstEmptyAgent THEN {[o1 EXCEPT !.agent = ag_ii]}
            ELSE {[o1 EXCEPT !.agent = BachtAstAgent("||", o1.agent, ag_ii)]}
            : o1 \in run_one(st, ag_i) }

\* The outcomes of a branch_exec after the toss branch_choice
Tossed(branch_choice, outcomes) ==
    { [o EXCEPT !.coins = <<branch_choice>> \o o.coins] : o \in outcomes }

\* run_one_parallel: branch_choice picks which operand goes first
run_one_parallel(st, ag_i, ag_ii) ==
    Tossed(TRUE, parallel_branch_exec(st, ag_i, ag_ii))
      \cup Tossed(FALSE, parallel_branch_exec(st, ag_ii, ag_i))

\* The second branch's outcome o2 after the first branch failed with o1
choice_second(o1, o2) ==
    LET o == [o2 EXCEPT !.log = o1.log \o o2.log, !.coins = o1.coins \o o2.coins] IN
    IF o2.status # "ok" THEN o
    ELSE IF ~o2.res THEN [o EXCEPT !.agent = BachtAstAgent("+", o1.agent, o2.agent)]
    ELSE o

\* Variant: the second branch is run as well after the first has progressed
choice_branch_exec_runs_both(st, ag_i, ag_ii) ==
    UNION { IF o1.status # "ok" THEN {o1}
            ELSE IF ~o1.res
              THEN { choice_second(o1, o2) : o2 \in run_one(o1.st, ag_ii) }
            ELSE { IF o2.status # "ok"
                     THEN [o2 EXCEPT !.log = o1.log \o o2.log,
                                     !.coins = o1.coins \o o2.coins]
                     ELSE [o1 EXCEPT !.log = o1.log \o o2.log,
                                     !.coins = o1.coins \o o2.coins,
                                     !.st = o2.st]
                   : o2 \in run_one(o1.st, ag_ii) }
            : o1 \in run_one(st, ag_i) }

\* Variant: the branch that did not run kept beside the residual, as for "||"
choice_branch_exec_keeps_other(st, ag_i, ag_ii) ==
    UNION { IF o1.status # "ok" THEN {o1}
            ELSE IF ~o1.res
              THEN { choice_second(o1, o2) : o2 \in run_one(o1.st, ag_ii) }
            ELSE IF o1.agent = BachtAstEmptyAgent THEN {[o1 EXCEPT !.agent = ag_ii]}
            ELSE {[o1 EXCEPT !.agent = BachtAstAgent("+", o1.agent, ag_ii)]}
            : o1 \in run_one(st, ag_i) }

\* Variant: ag_ii is not tried when ag_i fails
choice_branch_exec_first_only(st, ag_i, ag_ii) ==
    { IF o1.status = "ok" /\ ~o1.res
        THEN [o1 EXCEPT !.agent = BachtAstAgent("+", o1.agent, ag_ii)]
        ELSE o1
      : o1 \in run_one(st, ag_i) }

\* choice_branch_exec: the first branch that progresses is the residual
choice_branch_exec(st, ag_i, ag_ii) ==
    UNION { IF o1.status # "ok" THEN {o1}
            ELSE IF ~o1.res
              THEN { choice_second(o1, o2) : o2 \in run_one(o1.st, ag_ii) }
            ELSE {o1}
            : o1 \in run_one(st, ag_i) }

\* run_one_choice: branch_choice picks which operand goes first
run_one_choice(st, ag_i, ag_ii) ==
    Tossed(TRUE, choice_branch_exec(st, ag_i, ag_ii))
      \cup Tossed(FALSE, choice_branch_exec(st, ag_ii, ag_i))

\* run_one: dispatch on the agent; anything else panics ("Unknown agent")
run_one(st, agent) ==
    IF agent.kind = "prim" THEN run_one_primitive(st, agent.prim, agent.token)
    ELSE IF agent.kind = "op" /\ agent.op = ";"
      THEN run_one_sequence(st, agent.l, agent.r)
    ELSE IF agent.kind = "op" /\ agent.op = "||"
      THEN run_one_parallel(st, agent.l, agent.r)
    ELSE IF agent.kind = "op" /\ agent.op = "+"
      THEN run_one_choice(st, agent.l, agent.r)
    ELSE {Outcome("panic", FALSE, agent, st, <<>>, <<>>)}

NoStep == [n |-> 0, pre |-> EmptyStore,
           input |-> BachtAstEmptyAgent,
           out |-> Outcome("none", FALSE, BachtAstEmptyAgent, EmptyStore, <<>>, <<>>)]

NoCommit == [pre |-> EmptyStore, input |-> BachtAstEmptyAgent,
             out |-> Outcome("none", FALSE, BachtAstEmptyAgent, EmptyStore, <<>>, <<>>),
             at |-> 0]

SimIdle ==
    /\ current_agent = BachtAstEmptyAgent
    /\ sim_pc = "idle"
    /\ sim_result = "none"
    /\ invoked = <<>>
    /\ last_step = NoStep
    /\ initial_agent = BachtAstEmptyAgent
    /\ commit = NoCommit

\* Variant: no test for the empty agent before the loop
SimStart_without_empty_test ==
    /\ sim_pc = "start"
    /\ sim_pc' = "run"
    /\ UNCHANGED <<the_store, storeDriverVars, unitVars, queueVars, current_agent, sim_result,
                   invoked, last_step, initial_agent, commit>>

\* bacht_exec_all, line 53: the empty agent succeeds at once
SimStart ==
    /\ sim_pc = "start"
    /\ IF current_agent = BachtAstEmptyAgent
         THEN sim_pc' = "done" /\ sim_result' = "Ok(true)"
         ELSE sim_pc' = "run" /\ sim_result' = sim_result
    /\ UNCHANGED <<the_store, storeDriverVars, unitVars, queueVars, current_agent, invoked,
                   last_step, initial_agent, commit>>

\* Variant: a failed step ends the run only if its residual equals its input
SimStep_compares_residual ==
    /\ sim_pc = "run"
    /\ \E o \in run_one(the_store, current_agent) :
          /\ the_store' = o.st
          /\ invoked' = invoked \o o.log
          /\ last_step' = [n |-> last_step.n + 1, pre |-> the_store, input |-> current_agent,
                           out |-> o]
          /\ current_agent' = o.agent
          /\ commit' = IF current_agent.kind = "op" /\ current_agent.op = "+"
                            /\ o.status = "ok" /\ o.res
                         THEN [pre |-> the_store, input |-> current_agent, out |-> o,
                               at |-> Len(invoked) + Len(o.log)]
                         ELSE commit
          /\ IF o.status = "panic" THEN sim_pc' = "panic" /\ sim_result' = "panic"
             ELSE IF o.status = "err" THEN sim_pc' = "done" /\ sim_result' = "Err"
             ELSE IF ~o.res /\ o.agent = current_agent
               THEN sim_pc' = "done" /\ sim_result' = "Ok(false)"
             ELSE IF o.res /\ o.agent = BachtAstEmptyAgent
               THEN sim_pc' = "done" /\ sim_result' = "Ok(true)"
             ELSE sim_pc' = "run" /\ sim_result' = sim_result
    /\ UNCHANGED <<storeDriverVars, unitVars, queueVars, initial_agent>>

\* Variant: a run that ends without success puts the store back as it found it
SimStep_rolls_back ==
    /\ sim_pc = "run"
    /\ \E o \in run_one(the_store, current_agent) :
          /\ the_store' = IF o.status = "ok" /\ o.res THEN o.st ELSE init_store
          /\ invoked' = invoked \o o.log
          /\ last_step' = [n |-> last_step.n + 1, pre |-> the_store, input |-> current_agent,
                           out |-> o]
          /\ current_agent' = o.agent
          /\ commit' = IF current_agent.kind = "op" /\ current_agent.op = "+"
                            /\ o.status = "ok" /\ o.res
                         THEN [pre |-> the_store, input |-> current_agent, out |-> o,
                               at |-> Len(invoked) + Len(o.log)]
                         ELSE commit
          /\ IF o.status = "panic" THEN sim_pc' = "panic" /\ sim_result' = "panic"
             ELSE IF o.status = "err" THEN sim_pc' = "done" /\ sim_result' = "Err"
             ELSE IF ~o.res THEN sim_pc' = "done" /\ sim_result' = "Ok(false)"
             ELSE IF o.agent = BachtAstEmptyAgent
               THEN sim_pc' = "done" /\ sim_result' = "Ok(true)"
             ELSE sim_pc' = "run" /\ sim_result' = sim_result
    /\ UNCHANGED <<storeDriverVars, unitVars, queueVars, initial_agent>>

\* bacht_exec_all, lines 55-68: one iteration of the loop around run_one
SimStep ==
    /\ sim_pc = "run"
    /\ \E o \in run_one(the_store, current_agent) :
          /\ the_store' = o.st
          /\ invoked' = invoked \o o.log
          /\ last_step' = [n |-> last_step.n + 1, pre |-> the_store, input |-> current_agent,
                           out |-> o]
          /\ current_agent' = o.agent
          /\ commit' = IF current_agent.kind = "op" /\ current_agent.op = "+"
                            /\ o.status = "ok" /\ o.res
                         THEN [pre |-> the_store, input |-> current_agent, out |-> o,
                               at |-> Len(invoked) + Len(o.log)]
                         ELSE commit
          /\ IF o.status = "panic" THEN sim_pc' = "panic" /\ sim_result' = "panic"
             ELSE IF o.status = "err" THEN sim_pc' = "done" /\ sim_result' = "Err"
             ELSE IF ~o.res THEN sim_pc' = "done" /\ sim_result' = "Ok(false)"
             ELSE IF o.agent = BachtAstEmptyAgent
               THEN sim_pc' = "done" /\ sim_result' = "Ok(true)"
             ELSE sim_pc' = "run" /\ sim_result' = sim_result
    /\ UNCHANGED <<storeDriverVars, unitVars, queueVars, initial_agent>>

NextSim == SimStart \/ SimStep

MaxLeaves == 3

SimLeaves == {BachtAstPrimitive(prim, "a") : prim \in Prims}

\* A primitive name exec_primitive does not know, beside a known primitive
UnknownPrimAgents ==
    LET wrong == BachtAstPrimitive("wrong", "a") IN
    UNION { {BachtAstAgent(op, wrong, p), BachtAstAgent(op, p, wrong)}
            : op \in Ops, p \in SimLeaves }

\* The agent of the welcome message and the store of its scenario
ComplexAgent ==
    BachtAstAgent("||",
       BachtAstAgent(";", BachtAstPrimitive("tell", "bach"), BachtAstPrimitive("get", "rust")),
       BachtAstAgent(";", BachtAstPrimitive("get", "bach"), BachtAstPrimitive("tell", "rust")))

ComplexStore == "bach" :> u32(1)

\* Agents over two tokens, run from the empty store
TwoTokenAgents ==
    {BachtAstAgent(";", BachtAstPrimitive("tell", "a"), BachtAstPrimitive("ask", "b")),
     BachtAstAgent("||", BachtAstPrimitive("ask", "a"), BachtAstPrimitive("ask", "b"))}

RECURSIVE AgentsWithLeaves(_)
\* The agents with exactly n primitives
AgentsWithLeaves(n) ==
    IF n = 1 THEN SimLeaves
    ELSE UNION { {BachtAstAgent(op, l, r) :
                    op \in Ops, l \in AgentsWithLeaves(k), r \in AgentsWithLeaves(n - k)}
                 : k \in 1..(n - 1) }

\* The agents with at most n primitives, the empty agent among them
AgentsUpTo(n) == {BachtAstEmptyAgent} \cup UNION {AgentsWithLeaves(k) : k \in 1..n}

SimStores == {EmptyStore, "a" :> u32(1)}

\* A run's input is bounded as a whole: the agent's primitives plus the keys the
\* store already holds
InitAgents(st) == AgentsUpTo(MaxLeaves - Cardinality(DOMAIN st))

InitSim ==
    /\ \/ the_store \in SimStores /\ current_agent \in InitAgents(the_store)
       \/ the_store = EmptyStore /\ current_agent \in UnknownPrimAgents
       \/ the_store = EmptyStore /\ current_agent \in TwoTokenAgents
       \/ the_store = ComplexStore /\ current_agent = ComplexAgent
    /\ twin_store = EmptyStore
    /\ init_store = the_store
    /\ tell_count = [t \in Tokens |-> 0]
    /\ get_count = [t \in Tokens |-> 0]
    /\ last_op = NoOp
    /\ QueueInit
    /\ initial_agent = current_agent
    /\ sim_pc = "start"
    /\ sim_result = "none"
    /\ invoked = <<>>
    /\ last_step = NoStep
    /\ commit = NoCommit
    /\ UnitIdle

SpecSim == InitSim /\ [][NextSim]_vars

\* The future bacht_exec_all returns is awaited by its caller: it is polled until it
\* returns
SpecSimLive == InitSim /\ [][NextSim]_vars /\ WF_vars(NextSim)

(***************************************************************************)
(* Specifications                                                           *)
(***************************************************************************)
InitStore ==
    /\ the_store \in InitStores
    /\ twin_store \in {s \in InitStores : SameCounts(s, the_store)}
    /\ init_store = the_store
    /\ tell_count = [t \in Tokens |-> 0]
    /\ get_count = [t \in Tokens |-> 0]
    /\ last_op = NoOp
    /\ QueueInit
    /\ SimIdle
    /\ UnitIdle

SpecStore == InitStore /\ [][NextStore]_vars

Init ==
    /\ the_store = EmptyStore
    /\ StoreDriverIdle
    /\ QueueInit
    /\ SimIdle
    /\ UnitIdle

Next ==
    \/ BlackboardTell
    \/ BlackboardAsk
    \/ BlackboardGet
    \/ BlackboardNask
    \/ RecvReply
    \/ DropReceiver
    \/ SafeStop
    \/ Worker

Spec == Init /\ [][Next]_vars

NextLive ==
    \/ BlackboardTell
    \/ BlackboardAsk
    \/ BlackboardGet
    \/ BlackboardNask
    \/ RecvReply
    \/ Worker

\* The runtime polls every runnable task: the worker and a caller whose reply is in
LiveSpec == Init /\ [][NextLive]_vars /\ WF_vars(Worker) /\ WF_vars(RecvReply)

\* TaskQueue::new() and the waiters spawned, as the tests of the queue set them up
InitNotify ==
    /\ the_store = EmptyStore
    /\ StoreDriverIdle
    /\ QueueInit
    /\ SimIdle
    /\ waiter_pc = [w \in Waiters |-> "spawned"]
    /\ wake_log = <<>>
    /\ CloneIdle
    /\ ParseIdle

SpecNotify == InitNotify /\ [][NextNotify]_vars

\* create_blackboard() held by one client; the others get clones of it
InitClone ==
    /\ the_store = EmptyStore
    /\ StoreDriverIdle
    /\ QueueInit
    /\ SimIdle
    /\ NotifyIdle
    /\ bb = [c \in Clients |-> IF c = "c1" THEN BlackboardNew ELSE NoHandle]
    /\ other_queue = <<>>
    /\ sent_by = <<>>
    /\ ParseIdle

NextClone ==
    \/ BlackboardClone
    \/ HandleTell
    \/ HandleAsk
    \/ HandleGet
    \/ HandleNask
    \/ RecvReply
    \/ Worker

SpecClone == InitClone /\ [][NextClone]_vars

NextFacade ==
    \/ BlackboardTell
    \/ BlackboardAsk
    \/ BlackboardGet
    \/ BlackboardNask
    \/ TestSend
    \/ TestDropSender
    \/ FacadeReturn

SpecFacade == Init /\ [][NextFacade]_vars

(***************************************************************************)
(* Claims on the queue, the worker and the facade                           *)
(***************************************************************************)
RECURSIVE Reverse(_)
Reverse(q) == IF q = <<>> THEN <<>> ELSE Append(Reverse(Tail(q)), Head(q))

QueueIds == [i \in DOMAIN task_queue |-> task_queue[i].id]

InFlight == IF worker_task = NoTask THEN <<>> ELSE <<worker_task.id>>

\* Task ids are given in the order the enqueues took the queue lock
EnqueueOrder == [i \in 1..Len(events) |-> i]

\* C1: get_task returns the tasks in exactly the order their enqueues took the queue
\* lock (what was dequeued, followed by what is queued read from the tail, is the
\* enqueue order), and a get_task on an empty queue returns None and changes nothing.
C1_QueueFifo ==
    /\ [](deq_log \o Reverse(QueueIds) = EnqueueOrder)
    /\ [][(worker_pc = "get_task" /\ worker_pc' # "get_task" /\ task_queue = <<>>)
            => /\ worker_task' = NoTask
               /\ worker_pc' = "notify"
               /\ UNCHANGED <<task_queue, deq_log, the_store, chan, notifier, events>>]_vars

\* Witness of C1: one task dequeued while two more, of two producers, are queued
C1_Witness ==
    /\ Len(deq_log) >= 1
    /\ Len(task_queue) >= 2
    /\ \A c \in Clients : client_pc[c] = "await"

\* C2: every dequeued task is applied to the store exactly once and gets exactly one
\* send of Ok(result), result being what the store operation returned; no task is
\* dequeued twice and nothing is sent for a task that was not dequeued.
C2_ReplyCorrect ==
    /\ \A i, j \in DOMAIN deq_log : deq_log[i] = deq_log[j] => i = j
    /\ deq_log = [i \in DOMAIN apply_log |-> apply_log[i].id] \o InFlight
    /\ Len(send_log) = Len(apply_log)
    /\ \A i \in DOMAIN send_log :
         /\ send_log[i].id = apply_log[i].id
         /\ send_log[i].val = apply_log[i].res
    /\ \A id \in DOMAIN chan :
         /\ chan[id].tx = "sent" =>
              \E i \in DOMAIN send_log :
                 send_log[i].id = id /\ send_log[i].delivered /\ send_log[i].val = chan[id].val
         /\ (\A i \in DOMAIN deq_log : deq_log[i] # id) => chan[id].tx = "held"

\* Witness of C2: a reply Ok(true) and a reply Ok(false) have both been sent
C2_Witness ==
    /\ \E i, j \in DOMAIN send_log :
          send_log[i].delivered /\ send_log[j].delivered
          /\ send_log[i].val /\ ~send_log[j].val
    /\ Len(deq_log) = MaxTasks

Replied(id) == \E r \in replies : r.id = id /\ r.result.ok

Dequeued(id) == \E i \in DOMAIN deq_log : deq_log[i] = id

\* C3: with the stop flag never set and the worker scheduled fairly, every enqueued
\* task is eventually dequeued and its caller eventually receives the reply.
C3_ReplyLive ==
    \A id \in 1..MaxTasks : (Len(events) >= id) ~> (Dequeued(id) /\ Replied(id))

\* Witness of C3: a task was enqueued between the worker's failed dequeue and its
\* suspension in notify(), after earlier tasks were answered
C3_Witness ==
    /\ worker_pc = "notify"
    /\ task_queue # <<>>
    /\ replies # {}

RECURSIVE Replay(_, _)
\* The events applied one at a time to store s: the final store and the results
Replay(s, evs) ==
    IF evs = <<>> THEN [st |-> s, res |-> <<>>]
    ELSE LET r == store_op(s, Head(evs).action, Head(evs).token)
             rest == Replay(r.st, Tail(evs))
         IN  [st |-> rest.st, res |-> <<r.res>> \o rest.res]

\* C4: the store and every boolean handed out are those of applying the operations
\* one at a time, in the order the worker dequeued them, which is the enqueue order.
C4_Serialisable ==
    LET n == Len(apply_log)
        serial == Replay(EmptyStore, SubSeq(events, 1, n))
    IN  /\ the_store = serial.st
        /\ \A i \in 1..n : apply_log[i].id = i /\ apply_log[i].res = serial.res[i]
        /\ \A r \in replies : r.result.ok => r.id <= n /\ r.result.val = serial.res[r.id]

\* Witness of C4: both clients have a request pending at once, a reply was received,
\* and the store has answered both true and false
C4_Witness ==
    /\ \E i, j \in DOMAIN apply_log : apply_log[i].res /\ ~apply_log[j].res
    /\ replies # {}
    /\ \A c \in Clients : client_pc[c] = "await"
    /\ the_store # EmptyStore

(***************************************************************************)
(* Claims on the store                                                      *)
(***************************************************************************)
IsU32(n) == n.hi \in 0..(Half - 1) /\ n.lo \in 0..(Half - 1)

\* C5: every count is a u32 in 0..MAX; tell on a count of MAX returns true and leaves
\* it at MAX, tell never lowers a count (no wrap to 0) and get never raises one (no
\* wrap below 0).
C5_CountBounds ==
    /\ \A t \in DOMAIN the_store : IsU32(the_store[t])
    /\ last_op.op = "tell" =>
         /\ ~u32_lt(count(the_store, last_op.token), count(last_op.pre, last_op.token))
         /\ count(last_op.pre, last_op.token) = u32_MAX =>
              last_op.res /\ the_store[last_op.token] = u32_MAX
    /\ last_op.op = "get" =>
         /\ ~u32_lt(count(last_op.pre, last_op.token), count(the_store, last_op.token))
         /\ count(last_op.pre, last_op.token) = u32(0) =>
              count(the_store, last_op.token) = u32(0)

\* Witness of C5: a tell on a token whose count was already MAX
C5_Witness ==
    /\ last_op.op = "tell"
    /\ count(last_op.pre, last_op.token) = u32_MAX
    /\ the_store[last_op.token] = u32_MAX

\* C6: from an empty store and below saturation the count of t is the number of
\* tell(t) minus the number of get(t) that returned true; tell returns true and makes
\* an absent key 1; ask is true iff the count is >= 1 and nask iff it is 0.
C6_Counting ==
    /\ init_store = EmptyStore =>
         \A t \in Tokens :
            /\ tell_count[t] >= get_count[t]
            /\ count(the_store, t) = u32(tell_count[t] - get_count[t])
    /\ last_op.op = "tell" =>
         /\ last_op.res
         /\ last_op.token \notin DOMAIN last_op.pre => the_store[last_op.token] = u32(1)
    /\ last_op.op = "ask" =>
         (last_op.res <=> u32_lt(u32(0), count(last_op.pre, last_op.token)))
    /\ last_op.op = "nask" =>
         (last_op.res <=> count(last_op.pre, last_op.token) = u32(0))

\* Witness of C6: from the empty store, two tells and one successful get of a token
C6_Witness ==
    /\ init_store = EmptyStore
    /\ \E t \in Tokens : tell_count[t] = 2 /\ get_count[t] = 1 /\ the_store[t] = u32(1)

\* C7: ask, nask and a get that returns false leave the store as it was, counts and
\* keys; a get of an absent key returns false and does not create the key.
C7_NonMutating ==
    /\ (last_op.op \in {"ask", "nask"} \/ (last_op.op = "get" /\ ~last_op.res)) =>
         the_store = last_op.pre /\ DOMAIN the_store = DOMAIN last_op.pre
    /\ (last_op.op = "get" /\ last_op.token \notin DOMAIN last_op.pre) =>
         ~last_op.res /\ last_op.token \notin DOMAIN the_store

\* Witness of C7: a get of a key the store does not hold
C7_Witness ==
    /\ last_op.op = "get"
    /\ last_op.token \notin DOMAIN last_op.pre
    /\ last_op.pre # EmptyStore

\* C8: two stores that differ only in keys of count 0 answer every operation alike and
\* keep differing only so; a tell on the token raises its count to 1 in both.
C8_AbsentIsZero ==
    /\ SameCounts(the_store, twin_store)
    /\ last_op.res = last_op.twin_res
    /\ (last_op.op = "tell" /\ count(last_op.pre, last_op.token) = u32(0)) =>
         the_store[last_op.token] = u32(1) /\ twin_store[last_op.token] = u32(1)

\* Witness of C8: an operation on a token one store held with count 0 and the other
\* did not hold, after which the stores still differ in their keys
C8_Witness ==
    /\ last_op.op \in {"ask", "nask", "get"}
    /\ last_op.token \in DOMAIN last_op.pre
    /\ last_op.token \notin DOMAIN last_op.twin_pre
    /\ DOMAIN the_store # DOMAIN twin_store
    /\ last_op.n = MaxStoreOps

(***************************************************************************)
(* Claims on the simulator                                                  *)
(***************************************************************************)
RECURSIVE Leaves(_)
\* The primitives of an agent, as the calls they make
Leaves(agent) ==
    IF agent.kind = "prim" THEN {<<agent.prim, agent.token>>}
    ELSE IF agent.kind = "op" THEN Leaves(agent.l) \cup Leaves(agent.r)
    ELSE {}

IsOp(agent, op) == agent.kind = "op" /\ agent.op = op

\* C9: a step on Op(";", L, R) is the step on L and nothing else: it invokes what L's
\* step invokes and returns (false, Op(";", L', R)) if L fails, (true, R) if L yields
\* Empty and (true, Op(";", L', R)) otherwise, R untouched; and as long as L is not
\* reduced to Empty (the agent is still Op(";", _, R)) every primitive invoked in the
\* run is one of L.
C9_Sequence ==
    /\ (last_step.n > 0 /\ IsOp(last_step.input, ";")) =>
         LET L == last_step.input.l
             R == last_step.input.r
             o == last_step.out
         IN  \E oL \in run_one(last_step.pre, L) :
                /\ o.status = oL.status
                /\ o.log = oL.log
                /\ o.st = oL.st
                /\ o.coins = oL.coins
                /\ o.status = "ok" =>
                     /\ o.res = oL.res
                     /\ ~oL.res => o.agent = BachtAstAgent(";", oL.agent, R)
                     /\ (oL.res /\ oL.agent = BachtAstEmptyAgent) => o.agent = R
                     /\ (oL.res /\ oL.agent # BachtAstEmptyAgent) =>
                          o.agent = BachtAstAgent(";", oL.agent, R)
    /\ (IsOp(initial_agent, ";") /\ IsOp(current_agent, ";")
          /\ current_agent.r = initial_agent.r) =>
         \A i \in DOMAIN invoked :
            <<invoked[i].prim, invoked[i].token>> \in Leaves(initial_agent.l)

\* Witness of C9: L progressed without being done, so the step returned
\* (true, Op(";", L', R)) with the R of the run's agent, whose primitives are not L's
C9_Witness ==
    /\ last_step.n > 0
    /\ IsOp(initial_agent, ";")
    /\ last_step.input = initial_agent
    /\ last_step.out.status = "ok"
    /\ last_step.out.res
    /\ IsOp(current_agent, ";")
    /\ current_agent.r = initial_agent.r
    /\ Leaves(initial_agent.l) \cap Leaves(initial_agent.r) = {}
    /\ sim_pc = "run"

\* C10: a step on Op("||", L, R) whose toss chose the order (A, B) steps A; if A
\* progresses the result is (true, B) when A's residual is Empty and
\* (true, Op("||", A', B)) otherwise, and B is not stepped; only if A fails is B
\* stepped, giving (true, A') if B reduces to Empty, (true, Op("||", A', B')) if B
\* progresses and (false, Op("||", A', B')) if both fail.
C10_ParallelStep ==
    (last_step.n > 0 /\ IsOp(last_step.input, "||")) =>
      LET o == last_step.out
          toss == Head(o.coins)
          A == IF toss THEN last_step.input.l ELSE last_step.input.r
          B == IF toss THEN last_step.input.r ELSE last_step.input.l
      IN  \E oA \in run_one(last_step.pre, A) :
             \/ /\ oA.status # "ok"
                /\ o.status = oA.status
                /\ o.log = oA.log
             \/ /\ oA.status = "ok"
                /\ oA.res
                /\ o.status = "ok"
                /\ o.res
                /\ o.log = oA.log
                /\ o.st = oA.st
                /\ o.coins = <<toss>> \o oA.coins
                /\ o.agent = IF oA.agent = BachtAstEmptyAgent THEN B
                             ELSE BachtAstAgent("||", oA.agent, B)
             \/ /\ oA.status = "ok"
                /\ ~oA.res
                /\ \E oB \in run_one(oA.st, B) :
                      /\ o.status = oB.status
                      /\ o.log = oA.log \o oB.log
                      /\ o.st = oB.st
                      /\ o.coins = <<toss>> \o oA.coins \o oB.coins
                      /\ oB.status = "ok" =>
                           /\ o.res = oB.res
                           /\ o.agent =
                                IF oB.res /\ oB.agent = BachtAstEmptyAgent THEN oA.agent
                                ELSE BachtAstAgent("||", oA.agent, oB.agent)

\* Witness of C10: the toss put R first, R failed and L, stepped second, reduced to
\* Empty, so the residual is R alone
C10_Witness ==
    /\ last_step.n > 0
    /\ IsOp(last_step.input, "||")
    /\ ~Head(last_step.out.coins)
    /\ last_step.out.status = "ok"
    /\ last_step.out.res
    /\ Len(last_step.out.log) = 2
    /\ last_step.out.log[1].ret = "false"
    /\ last_step.input.l.kind = "prim"
    /\ current_agent = last_step.input.r

\* The step on Op("+", L, R) recorded in c progressed through the branch X: either X
\* went first and progressed, or the other branch went first and failed, then X
\* progressed; the step's residual, calls and store are those of X's step.
CommittedTo(c, X) ==
    LET o == c.out
        toss == Head(o.coins)
        A == IF toss THEN c.input.l ELSE c.input.r
        B == IF toss THEN c.input.r ELSE c.input.l
    IN  \/ /\ X = A
           /\ \E oA \in run_one(c.pre, A) :
                 /\ oA.status = "ok" /\ oA.res
                 /\ o.agent = oA.agent
                 /\ o.log = oA.log
                 /\ o.st = oA.st
        \/ /\ X = B
           /\ \E oA \in run_one(c.pre, A) :
                 /\ oA.status = "ok" /\ ~oA.res
                 /\ \E oB \in run_one(oA.st, B) :
                       /\ oB.status = "ok" /\ oB.res
                       /\ o.agent = oB.agent
                       /\ o.log = oA.log \o oB.log
                       /\ o.st = oB.st

\* C11: when a step on Op("+", L, R) progresses, its residual is the residual of the
\* one branch X that progressed (Empty or X's continuation) and holds nothing of the
\* other branch; the call that succeeded is the last of the step, and every primitive
\* invoked in the later steps of the run is one of X.
C11_ChoiceCommits ==
    commit # NoCommit =>
      \E X \in {commit.input.l, commit.input.r} :
         /\ CommittedTo(commit, X)
         /\ commit.out.log[Len(commit.out.log)].ret = "true"
         /\ Leaves(commit.out.agent) \subseteq Leaves(X)
         /\ Leaves(current_agent) \subseteq Leaves(X)
         /\ \A i \in (commit.at + 1)..Len(invoked) :
               <<invoked[i].prim, invoked[i].token>> \in Leaves(X)

\* Witness of C11: the branch tried first failed, the other progressed without being
\* done, and a later step of the run invoked a primitive; the branches share none
C11_Witness ==
    /\ commit # NoCommit
    /\ commit.input = initial_agent
    /\ commit.out.log[1].ret = "false"
    /\ commit.out.agent # BachtAstEmptyAgent
    /\ Len(invoked) > commit.at
    /\ Leaves(commit.input.l) \cap Leaves(commit.input.r) = {}

RECURSIVE SameUpToOrder(_, _)
\* Agents equal up to the order of the operands of their "||" and "+"
SameUpToOrder(a, b) ==
    IF a.kind # "op" \/ b.kind # "op" THEN a = b
    ELSE /\ a.op = b.op
         /\ \/ SameUpToOrder(a.l, b.l) /\ SameUpToOrder(a.r, b.r)
            \/ /\ a.op \in {"||", "+"}
               /\ SameUpToOrder(a.l, b.r)
               /\ SameUpToOrder(a.r, b.l)

StepFailed == last_step.n > 0 /\ last_step.out.status = "ok" /\ ~last_step.out.res

\* C12 as stated: the run has returned Ok(false) exactly when the last step returned
\* (false, residual) with the residual equal to the step's input, so that a failed
\* step with another residual does not end the run.
C12_DeadlockOnlyIfEqual ==
    (sim_result = "Ok(false)") <=> (StepFailed /\ last_step.out.agent = last_step.input)

\* C12 as amended: the run has returned Ok(false) exactly when the last step returned
\* (false, residual), whatever the residual (a failed step always ends the run); in
\* such a step every call returned false and the store is as before, and the residual
\* is the input up to the order of the operands of "||" and "+", which are rebuilt in
\* the order the toss chose: it equals the input when every toss chose (L, R).
C12_Deadlock ==
    /\ (sim_result = "Ok(false)") <=> StepFailed
    /\ StepFailed => sim_pc = "done"
    /\ StepFailed =>
         LET o == last_step.out IN
         /\ SameUpToOrder(o.agent, last_step.input)
         /\ (\A i \in DOMAIN o.coins : o.coins[i]) => o.agent = last_step.input
         /\ \A i \in DOMAIN o.log : o.log[i].ret = "false"
         /\ o.st = last_step.pre

\* Witness of C12: both branches of an operator failed in one step, the residual,
\* rebuilt in the order of the toss, differs from the input, and the run returned
\* Ok(false)
C12_Witness ==
    /\ sim_result = "Ok(false)"
    /\ StepFailed
    /\ Len(last_step.out.log) >= 2
    /\ last_step.out.agent # last_step.input

\* C13: a primitive invocation that returns an error (the blackboard's ChannelError,
\* or an unknown primitive name) is the last invocation of the run: the step and the
\* run return the error at once, and nothing is invoked after it, the second branch
\* of a "||" or "+" included; the run returns an error only so.
C13_ErrorPropagates ==
    /\ \A i \in DOMAIN invoked :
          invoked[i].ret = "err" =>
             /\ i = Len(invoked)
             /\ last_step.out.status = "err"
             /\ sim_pc = "done"
             /\ sim_result = "Err"
    /\ sim_result = "Err" =>
          /\ invoked # <<>>
          /\ invoked[Len(invoked)].ret = "err"
    /\ \A i \in DOMAIN invoked :
          invoked[i].prim \notin Prims => invoked[i].ret = "err"

\* Witness of C13: the toss of a "||" put an unknown primitive first; its error ended
\* the run and the other branch, a tell, was not attempted
C13_Witness ==
    /\ sim_result = "Err"
    /\ IsOp(initial_agent, "||")
    /\ initial_agent.l = BachtAstPrimitive("tell", "a")
    /\ Len(invoked) = 1
    /\ invoked[1].prim \notin Prims
    /\ last_step.out.coins = <<FALSE>>
    /\ the_store = EmptyStore

\* C14: the run of the empty agent returns Ok(true) at once: no step is taken, no
\* primitive is invoked and the store is never changed.
C14_RunEmpty ==
    /\ []((initial_agent = BachtAstEmptyAgent /\ sim_pc # "start") =>
            /\ sim_pc = "done"
            /\ sim_result = "Ok(true)"
            /\ invoked = <<>>
            /\ last_step = NoStep)
    /\ [][initial_agent = BachtAstEmptyAgent =>
            the_store' = the_store /\ invoked' = <<>>]_vars

\* Witness of C14: the run of the empty agent has returned, over a store that holds
\* a token
C14_Witness ==
    /\ initial_agent = BachtAstEmptyAgent
    /\ sim_pc = "done"
    /\ sim_result = "Ok(true)"
    /\ the_store # EmptyStore

(***************************************************************************)
(* The interpreter scenarios: a run of a given agent from a given store     *)
(***************************************************************************)
Scenario(agent, st) == initial_agent = agent /\ init_store = st

\* The run has returned an error, which only an erroring call brings (the blackboard
\* behind the simulator was gone)
ReturnedErr ==
    sim_result = "Err" /\ invoked # <<>> /\ invoked[Len(invoked)].ret = "err"

TellParGet == BachtAstAgent("||", BachtAstPrimitive("tell", "a"), BachtAstPrimitive("get", "a"))

\* C15: from the empty store the run of tell(a)||get(a) returns, within two steps and
\* whatever the tosses, Ok(true) (the blackboard answering every call), and then the
\* count of a is 0; it never returns Ok(false).
C15_ParallelScenario ==
    Scenario(TellParGet, EmptyStore) =>
      /\ sim_pc \in {"start", "run", "done"}
      /\ sim_pc = "run" => last_step.n <= 1
      /\ sim_pc = "done" => (sim_result = "Ok(true)" \/ ReturnedErr)
      /\ sim_result = "Ok(true)" =>
           /\ count(the_store, "a") = u32(0)
           /\ \E i, j \in DOMAIN invoked :
                 /\ i < j
                 /\ invoked[i] = Call("tell", "a", "true")
                 /\ invoked[j] = Call("get", "a", "true")

\* Witness of C15: the toss put get(a) first, it failed, tell(a) then get(a) succeeded
C15_Witness ==
    /\ Scenario(TellParGet, EmptyStore)
    /\ sim_result = "Ok(true)"
    /\ invoked = <<Call("get", "a", "false"), Call("tell", "a", "true"),
                   Call("get", "a", "true")>>

\* C16: from the store {bach:1} the run of (tell(bach);get(rust))||(get(bach);tell(rust))
\* returns, within four steps and whatever the tosses, Ok(true) (the blackboard
\* answering every call): no interleaving ends in Ok(false).
C16_ComplexResult ==
    Scenario(ComplexAgent, ComplexStore) =>
      /\ sim_pc \in {"start", "run", "done"}
      /\ sim_pc = "run" => last_step.n <= 3
      /\ sim_pc = "done" => (sim_result = "Ok(true)" \/ ReturnedErr)

\* Witness of C16: a run that returned Ok(true) after get(rust) was tried too early
\* and failed, and get(bach) ran before tell(bach)
C16_Witness ==
    /\ Scenario(ComplexAgent, ComplexStore)
    /\ sim_result = "Ok(true)"
    /\ \E i \in DOMAIN invoked : invoked[i] = Call("get", "rust", "false")
    /\ invoked[1] = Call("get", "bach", "true")

\* C17 as stated: after that run has returned Ok(true) the counts of bach and rust add
\* up to 2 and both are at least 1.
C17_ComplexStoreSumTwo ==
    (Scenario(ComplexAgent, ComplexStore) /\ sim_result = "Ok(true)") =>
      LET bach == count(the_store, "bach")
          rust == count(the_store, "rust")
      IN  /\ bach.hi = 0 /\ rust.hi = 0
          /\ bach.lo + rust.lo = 2
          /\ bach.lo >= 1 /\ rust.lo >= 1

\* C17 as amended: after that run has returned Ok(true) the count of bach is 1 and the
\* count of rust is 0 (each token was told once and got once; they add up to 1).
C17_ComplexStore ==
    (Scenario(ComplexAgent, ComplexStore) /\ sim_result = "Ok(true)") =>
      /\ the_store = ("bach" :> u32(1)) @@ ("rust" :> u32(0))
      /\ Len(SelectSeq(invoked, LAMBDA c : c.ret = "true")) = 4

\* Witness of C17: the run returned Ok(true) and no call failed on the way
C17_Witness ==
    /\ Scenario(ComplexAgent, ComplexStore)
    /\ sim_result = "Ok(true)"
    /\ Len(invoked) = 4
    /\ count(the_store, "rust") = u32(0)

NaskOrAsk == BachtAstAgent("+", BachtAstPrimitive("nask", "a"), BachtAstPrimitive("ask", "a"))

\* C18: from the empty store the run of nask(a)+ask(a) returns Ok(true) after one
\* step, whatever the toss (the blackboard answering every call): nask succeeds, ask
\* is never invoked after nask has succeeded, ask never succeeds and the store stays
\* empty.
C18_ChoiceScenario ==
    Scenario(NaskOrAsk, EmptyStore) =>
      /\ sim_pc \in {"start", "run", "done"}
      /\ sim_pc = "run" => last_step.n = 0
      /\ sim_pc = "done" => (sim_result = "Ok(true)" \/ ReturnedErr)
      /\ sim_result = "Ok(true)" =>
           invoked[Len(invoked)] = Call("nask", "a", "true")
      /\ \A i, j \in DOMAIN invoked :
            (i < j /\ invoked[i] = Call("nask", "a", "true")) => invoked[j].prim # "ask"
      /\ \A i \in DOMAIN invoked : invoked[i].prim = "ask" => invoked[i].ret # "true"
      /\ the_store = EmptyStore

\* Witness of C18: the toss put ask(a) first, it failed, and nask(a) succeeded
C18_Witness ==
    /\ Scenario(NaskOrAsk, EmptyStore)
    /\ sim_result = "Ok(true)"
    /\ invoked = <<Call("ask", "a", "false"), Call("nask", "a", "true")>>
    /\ current_agent = BachtAstEmptyAgent

(***************************************************************************)
(* Claims on stopping the worker                                            *)
(***************************************************************************)
\* C19 as stated: once the worker has returned, every task in the queue, left there
\* or enqueued since, has the sender of its reply channel dropped, so that its client
\* gets ChannelError; none of these tasks has changed the store.
C19_StoppedWorkerDrops ==
    worker_pc = "returned" =>
      \A i \in DOMAIN task_queue :
         /\ chan[task_queue[i].id].tx = "dropped"
         /\ \A k \in DOMAIN apply_log : apply_log[k].id # task_queue[i].id

Applied(id) == \E i \in DOMAIN apply_log : apply_log[i].id = id

\* C20: a task the worker had dequeued when safe_stop set the flag is still applied to
\* the store and its reply Ok(result) is still sent (to a receiver that is still
\* there) before the worker returns: the worker never returns holding a task, and
\* every task it dequeued was applied and answered with the store's result.
C20_StopKeepsInFlight ==
    /\ stop_task # 0 => Dequeued(stop_task) /\ (worker_task.id = stop_task \/ Applied(stop_task))
    /\ worker_pc = "returned" =>
         /\ worker_task = NoTask
         /\ \A k \in DOMAIN deq_log :
               LET id == deq_log[k] IN
               /\ k \in DOMAIN apply_log
               /\ k \in DOMAIN send_log
               /\ apply_log[k].id = id
               /\ send_log[k] = [id |-> id, val |-> apply_log[k].res,
                                 delivered |-> chan[id].tx = "sent"]
               /\ chan[id].tx = "sent" => chan[id].val = apply_log[k].res
               /\ chan[id].tx = "dropped" => chan[id].rx = "dropped"
               /\ \A r \in replies : r.id = id => r.result = [val |-> apply_log[k].res, ok |-> TRUE]
    /\ (worker_pc = "returned" /\ stop_task # 0) =>
         the_store = Replay(EmptyStore, SubSeq(events, 1, stop_task)).st

\* Witness of C20: safe_stop ran while a tell was in flight; the worker has returned,
\* the tell is in the store and its client has received Ok(true)
C20_Witness ==
    /\ stop_task # 0
    /\ worker_pc = "returned"
    /\ events[stop_task].action = "tell"
    /\ the_store # EmptyStore
    /\ \E r \in replies : r.id = stop_task /\ r.result = [val |-> TRUE, ok |-> TRUE]

\* C21 as stated: after a failed dequeue the worker tests the stop flag before it
\* suspends, and suspends only if the flag is unset: it never goes from the failed
\* dequeue into the wait of notify() with the flag set.
C21_StopCheckedBeforeSuspending ==
    [][(worker_pc = "notify" /\ safe_stop_signal) => worker_pc' # "notified_wait"]_vars

\* C22: the worker returns only on the stop flag: while the flag is unset it has not
\* returned, whether the queue is empty or not; it is suspended in notify() only with
\* the queue drained, and a wake sends it, the flag unset, back to get_task.
C22_RunsUntilStop ==
    /\ [](worker_pc = "returned" => safe_stop_signal)
    /\ []((worker_pc = "notified_wait" /\ "worker" \notin notifier.woken) =>
            task_queue = <<>>)
    /\ [][(worker_pc = "notified_wait" /\ worker_pc' # worker_pc) =>
            ("worker" \in notifier.woken /\ worker_pc' = "check_stop_after_notify")]_vars
    /\ [][(worker_pc = "check_stop_after_notify" /\ ~safe_stop_signal
              /\ worker_pc' # worker_pc) => worker_pc' = "get_task"]_vars
    /\ [][(worker_pc = "get_task" /\ worker_pc' # worker_pc /\ task_queue # <<>>) =>
            (worker_pc' = "handle" /\ worker_task' = task_queue[Len(task_queue)])]_vars

\* Witness of C22: the worker, which had drained the queue and suspended, was woken by
\* an enqueue and is back at get_task with the task queued, the flag unset
C22_Witness ==
    /\ worker_pc = "get_task"
    /\ ~safe_stop_signal
    /\ Len(apply_log) >= 1
    /\ Len(task_queue) = 1
    /\ ~notifier.permit
    /\ Len(events) = Len(apply_log) + 1

\* C23: a task whose receiver was dropped before the worker handled it is applied to
\* the store all the same (the store is that of all the tasks handled, in order), its
\* failed send is ignored, and the worker goes on: the tasks after it are handled and
\* answered with the store's result.
C23_DroppedReceiver ==
    LET n == Len(apply_log)
        serial == Replay(EmptyStore, SubSeq(events, 1, n))
    IN  /\ Len(deq_log) = n + Len(InFlight)
        /\ Len(send_log) = n
        /\ the_store = serial.st
        /\ \A k \in DOMAIN send_log :
              LET id == send_log[k].id IN
              /\ apply_log[k].id = id
              /\ apply_log[k].res = serial.res[k]
              /\ ~send_log[k].delivered =>
                    /\ chan[id].rx = "dropped"
                    /\ chan[id].tx = "dropped"
                    /\ \A r \in replies : r.id # id
              /\ send_log[k].delivered =>
                    /\ chan[id].tx = "sent"
                    /\ chan[id].val = serial.res[k]
        /\ (\E k \in DOMAIN send_log : ~send_log[k].delivered) =>
              (worker_pc = "returned" => safe_stop_signal)

\* Witness of C23: a tell whose receiver was dropped is in the store, and a later
\* task was handled and its reply received
C23_Witness ==
    \E k, j \in DOMAIN send_log :
       /\ k < j
       /\ ~send_log[k].delivered
       /\ events[send_log[k].id].action = "tell"
       /\ count(the_store, events[send_log[k].id].token) # u32(0)
       /\ send_log[j].delivered
       /\ \E r \in replies : r.id = send_log[j].id /\ r.result.ok

\* C27: in one step of a simulator at most one primitive returns true, no primitive is
\* invoked after it, the step reports progress exactly when one did, and the store
\* after the step is the store before it changed by that one primitive only.
C27_AtMostOneFires ==
    LET log == last_step.out.log
        fired == log # <<>> /\ log[Len(log)].ret = "true"
    IN  /\ \A k \in DOMAIN log : log[k].ret = "true" => k = Len(log)
        /\ last_step.out.status = "ok" => (last_step.out.res <=> fired)
        /\ last_step.out.st =
              IF fired
                THEN store_op(last_step.pre, log[Len(log)].prim, log[Len(log)].token).st
                ELSE last_step.pre

\* Witness of C27: a step of a parallel composition in which a primitive of one branch
\* failed, a primitive of the other fired, and a sequel of it is left for a later step
C27_Witness ==
    /\ last_step.input.kind = "op"
    /\ last_step.input.op = "||"
    /\ Len(last_step.out.log) >= 2
    /\ last_step.out.log[1].ret = "false"
    /\ last_step.out.log[Len(last_step.out.log)].ret = "true"
    /\ last_step.out.agent # BachtAstEmptyAgent
    /\ last_step.out.st # last_step.pre

(***************************************************************************)
(* Claims on the queue's notifications                                      *)
(***************************************************************************)
\* The waiters a wake made runnable, whether or not they ran since
Runnable == {w \in Waiters : w \in notifier.woken \/ waiter_pc[w] = "resumed"}

\* The waiters still suspended in notify()
Suspended == {w \in Waiters : waiter_pc[w] = "suspended" /\ w \notin notifier.woken}

\* C24: each enqueue posts one wake: the waiters made runnable are as many as the
\* enqueues that found a waiter suspended; when all k enqueues found one (n waiters
\* suspended, k <= n), exactly k waiters are runnable, no permit is left over, and
\* the other waiters stay suspended, still registered with the notifier.
C24_NotificationCount ==
    LET k == Len(wake_log)
        served == {i \in DOMAIN wake_log : wake_log[i] # {}}
    IN  /\ Len(task_queue) = k
        /\ Cardinality(Runnable) = Cardinality(served)
        /\ Suspended = {notifier.waiters[i] : i \in DOMAIN notifier.waiters}
        /\ Cardinality(Suspended) = Len(notifier.waiters)
        /\ (\A i \in DOMAIN wake_log : wake_log[i] # {}) =>
              /\ Cardinality(Runnable) = k
              /\ ~notifier.permit
              /\ \A w \in Waiters : waiter_pc[w] # "passed"
        /\ \A w \in Runnable : \E i \in DOMAIN wake_log : w \in wake_log[i]

\* Witness of C24: three waiters were suspended, two events were enqueued, two
\* waiters are runnable and the third is still suspended
C24_Witness ==
    /\ Len(wake_log) = 2
    /\ wake_log[1] = Waiters
    /\ Cardinality(Runnable) = 2
    /\ Cardinality(Suspended) = 1
    /\ \E w \in Waiters : waiter_pc[w] = "resumed"

(***************************************************************************)
(* Claims on the clones of a Blackboard                                     *)
(***************************************************************************)
\* The tasks with an id in ids (or below j, for Before) that are action(t)
Among(ids, action, t) ==
    {i \in ids : i \in DOMAIN events /\ events[i] = Event(action, t)}

\* C25: every handle refers to the queue, the worker and the store made by
\* Blackboard::new, so every task sent through any handle reaches the one worker; and
\* an operation whose reply was received is seen by every operation sent afterwards
\* through any handle: an ask(t) sent after more tell(t) were answered than get(t)
\* were ever sent before it returns true, and a nask(t) then returns false.
C25_ClonesShareState ==
    /\ \A c \in Clients : bb[c] \in {NoHandle, BlackboardNew}
    /\ other_queue = <<>>
    /\ Len(sent_by) = Len(events)
    /\ \A r \in replies :
          LET j == r.id IN
          (j \in DOMAIN sent_by /\ j \in DOMAIN events) =>
            \A t \in QueueTokens :
              Cardinality(Among(sent_by[j].after, "tell", t))
                  > Cardinality(Among(1..(j - 1), "get", t)) =>
                /\ r.result.ok
                /\ events[j] = Event("ask", t) => r.result.val
                /\ events[j] = Event("nask", t) => ~r.result.val

\* Witness of C25: a tell(t) sent through the clone was answered, then an ask(t) was
\* sent through the original and answered true
C25_Witness ==
    \E r \in replies :
       /\ r.id \in DOMAIN sent_by
       /\ sent_by[r.id].by = "c1"
       /\ events[r.id].action = "ask"
       /\ r.result.ok /\ r.result.val
       /\ \E i \in sent_by[r.id].after :
             /\ sent_by[i].by = "c2"
             /\ events[i] = Event("tell", events[r.id].token)

(***************************************************************************)
(* Claims on the result of send_event                                       *)
(***************************************************************************)
\* The send_event calls made so far: those that returned and those awaiting
Calls == {r.id : r \in replies} \cup {client_task[c] : c \in {d \in Clients : client_pc[d] = "await"}}

LowerChars == {"a", "b", "e", "f", "g", "k", "l", "n", "o", "s", "t"}

UpperChars == {"A", "B"}

DigitChars == {"1"}

\* [a-zA-Z0-9_]
TokenChars == LowerChars \cup UpperChars \cup DigitChars \cup {"_"}

POk(rest, out) == [status |-> "ok", out |-> out, rest |-> rest]

PError == [status |-> "error", out |-> <<>>, rest |-> <<>>]

PIncomplete == [status |-> "incomplete", out |-> <<>>, rest |-> <<>>]

IsPrefix(p, w) == Len(p) <= Len(w) /\ SubSeq(w, 1, Len(p)) = p

\* nom::bytes::tag
tag(t, input, mode) ==
    IF IsPrefix(t, input) THEN POk(SubSeq(input, Len(t) + 1, Len(input)), t)
    ELSE IF mode = "streaming" /\ IsPrefix(input, t) THEN PIncomplete
    ELSE PError

\* Variant: the regular expression ^[a-z]+
token_lowercase_only(input) ==
    LET n == Cardinality({k \in 1..Len(input) : \A j \in 1..k : input[j] \in LowerChars})
    IN  IF n = 0 THEN PError
        ELSE POk(SubSeq(input, n + 1, Len(input)), SubSeq(input, 1, n))

\* token: the longest match of ^[a-z][a-zA-Z0-9_]* at the start of the input
token(input) ==
    LET n == Cardinality({k \in 1..Len(input) :
                            \A j \in 1..k : IF j = 1 THEN input[j] \in LowerChars
                                            ELSE input[j] \in TokenChars})
    IN  IF n = 0 THEN PError
        ELSE POk(SubSeq(input, n + 1, Len(input)), SubSeq(input, 1, n))

\* delimited(tag("<prim>("), token, tag(")")) mapped to BachtAstPrimitive(prim, token),
\* one parser after the other: r1, r2, r3 are what the three returned
delimited_close(prim, r2, r3) ==
    IF r3.status # "ok" THEN r3 ELSE POk(r3.rest, BachtAstPrimitive(prim, r2.out))

delimited_token(prim, r2) ==
    IF r2.status # "ok" THEN r2
    ELSE delimited_close(prim, r2, tag(<<")">>, r2.rest, "streaming"))

delimited_open(prim, r1) ==
    IF r1.status # "ok" THEN r1 ELSE delimited_token(prim, token(r1.rest))

delimited_primitive(prim, open, input) ==
    delimited_open(prim, tag(open, input, "streaming"))

\* result.or_else(|_| next): any error of the first gives way to the next
or_else(r, next) == IF r.status = "ok" THEN r ELSE next

\* primitive: tell( , or else ask( , or else get( , or else nask(
primitive(input) ==
    or_else(delimited_primitive("tell", <<"t", "e", "l", "l", "(">>, input),
      or_else(delimited_primitive("ask", <<"a", "s", "k", "(">>, input),
        or_else(delimited_primitive("get", <<"g", "e", "t", "(">>, input),
                delimited_primitive("nask", <<"n", "a", "s", "k", "(">>, input))))

\* The closure given to map, on what complete(opt((tag(op), operand))) gave after r1:
\* the pair parsed is Some, an Error of the operand is None (opt), an Incomplete of it
\* is an Error of the whole (complete)
composed(op, r1, r2) ==
    IF r2.status = "ok" THEN POk(r2.rest, BachtAstAgent(op, r1.out, r2.out))
    ELSE IF r2.status = "error" THEN POk(r1.rest, r1.out)
    ELSE PError

RECURSIVE composition_choice(_)
RECURSIVE composition_para(_)
RECURSIVE composition_seq(_)

\* complete(opt((tag("+"), composition_choice))) after r1, t being what the tag gave
choice_operand(r1, t) ==
    IF t.status # "ok" THEN POk(r1.rest, r1.out)
    ELSE composed("+", r1, composition_choice(t.rest))

choice_operator(r1) ==
    IF r1.status # "ok" THEN r1
    ELSE choice_operand(r1, tag(<<"+">>, r1.rest, "complete"))

\* (composition_para, complete(opt((tag("+"), composition_choice))))
composition_choice(input) == choice_operator(composition_para(input))

\* complete(opt((tag("||"), composition_para))) after r1
para_operand(r1, t) ==
    IF t.status # "ok" THEN POk(r1.rest, r1.out)
    ELSE composed("||", r1, composition_para(t.rest))

para_operator(r1) ==
    IF r1.status # "ok" THEN r1
    ELSE para_operand(r1, tag(<<"|", "|">>, r1.rest, "complete"))

\* (composition_seq, complete(opt((tag("||"), composition_para))))
composition_para(input) == para_operator(composition_seq(input))

\* Variant: the right operand of ";" parsed by composition_choice
seq_operand_takes_choice(r1, t) ==
    IF t.status # "ok" THEN POk(r1.rest, r1.out)
    ELSE composed(";", r1, composition_choice(t.rest))

\* complete(opt((tag(";"), composition_seq))) after r1
seq_operand(r1, t) ==
    IF t.status # "ok" THEN POk(r1.rest, r1.out)
    ELSE composed(";", r1, composition_seq(t.rest))

seq_operator(r1) ==
    IF r1.status # "ok" THEN r1
    ELSE seq_operand(r1, tag(<<";">>, r1.rest, "complete"))

\* delimited(tag("("), composition_choice, tag(")")), one parser after the other
parenthesized_close(r2, r3) ==
    IF r3.status # "ok" THEN r3 ELSE POk(r3.rest, r2.out)

parenthesized_inner(r2) ==
    IF r2.status # "ok" THEN r2
    ELSE parenthesized_close(r2, tag(<<")">>, r2.rest, "streaming"))

parenthesized_open(r1) ==
    IF r1.status # "ok" THEN r1 ELSE parenthesized_inner(composition_choice(r1.rest))

parenthesized_agent(input) == parenthesized_open(tag(<<"(">>, input, "streaming"))

\* primitive(input).or_else(|_| parenthesized_agent(input))
simple_agent(input) == or_else(primitive(input), parenthesized_agent(input))

\* (simple_agent, complete(opt((tag(";"), composition_seq))))
composition_seq(input) == seq_operator(simple_agent(input))

agent(input) == composition_choice(input)

ParseOk(expr) == [ok |-> TRUE, err |-> "none", ast |-> expr]

ParseErr(kind) == [ok |-> FALSE, err |-> kind, ast |-> [kind |-> "none"]]

\* all_consuming: an Error if something of the text is left
all_consuming(r) == IF r.status = "ok" /\ r.rest # <<>> THEN PError ELSE r

\* Variant: Ok((_, expr)) => Ok(expr), whatever is left of the text
parse_agent_match_any_rest(r) ==
    IF r.status # "ok" THEN ParseErr(r.status) ELSE ParseOk(r.out)

\* parse_agent's match: Ok(("", expr)) => Ok(expr), Ok((_, _)) => Err, Err(err) => Err(err)
parse_agent_match(r) ==
    IF r.status # "ok" THEN ParseErr(r.status)
    ELSE IF r.rest # <<>> THEN ParseErr("error")
    ELSE ParseOk(r.out)

\* Variant: the agent parsed without all_consuming, its match taking any rest
parse_agent_prefix(input) == parse_agent_match_any_rest(agent(input))

\* parse_agent: all_consuming(agent), then the match
parse_agent(input) == parse_agent_match(all_consuming(agent(input)))

parse(input) == parse_agent(input)

(***************************************************************************)
(* The texts given to the parser: short sequences of pieces of syntax,      *)
(* well formed or not, and expressions written out in three ways            *)
(***************************************************************************)
MaxPieces == 3

MaxParseLeaves == 3

TellA == <<"t", "e", "l", "l", "(", "a", ")">>

NaskB == <<"n", "a", "s", "k", "(", "b", "B", "_", "1", ")">>

Pieces ==
    { TellA, NaskB, <<";">>, <<"|", "|">>, <<"+">>, <<"(">>, <<")">>,
      <<" ">>, <<"|">>, <<"?">>,
      <<"f", "o", "o", "(", "a", ")">>,
      <<"t", "e", "l", "l", "(", "A", ")">>,
      <<"t", "e", "l", "l", "(", ")">>,
      <<"t", "e", "l", "l", "(", "a">> }

RECURSIVE Concat(_)
Concat(ps) == IF ps = <<>> THEN <<>> ELSE Head(ps) \o Concat(Tail(ps))

PieceTexts == {Concat(ps) : ps \in UNION {[1..n -> Pieces] : n \in 0..MaxPieces}}

ParseLeaves ==
    {BachtAstPrimitive("tell", <<"a">>), BachtAstPrimitive("nask", <<"b", "B", "_", "1">>)}

RECURSIVE ExprsWithLeaves(_)
ExprsWithLeaves(k) ==
    IF k = 1 THEN ParseLeaves
    ELSE UNION { {BachtAstAgent(op, l, r) :
                    op \in Ops, l \in ExprsWithLeaves(i), r \in ExprsWithLeaves(k - i)}
                 : i \in 1..(k - 1) }

ParseExprs ==
    {BachtAstPrimitive("ask", <<"a">>), BachtAstPrimitive("get", <<"a">>)}
      \cup UNION {ExprsWithLeaves(k) : k \in 1..MaxParseLeaves}

\* The precedence of the grammar: ";" above "||" above "+"
Prec(op) == IF op = ";" THEN 3 ELSE IF op = "||" THEN 2 ELSE 1

OpText(op) == IF op = "||" THEN <<"|", "|">> ELSE <<op>>

PrimText(prim) ==
    IF prim = "tell" THEN <<"t", "e", "l", "l">>
    ELSE IF prim = "ask" THEN <<"a", "s", "k">>
    ELSE IF prim = "get" THEN <<"g", "e", "t">>
    ELSE <<"n", "a", "s", "k">>

RECURSIVE canonical_text(_)
\* The canonical text of an expression: parentheses around every operand that is an
\* operator expression of a precedence not above that of the expression
canonical_text(expr) ==
    IF expr.kind = "prim" THEN PrimText(expr.prim) \o <<"(">> \o expr.token \o <<")">>
    ELSE LET operand(e) ==
               IF e.kind = "op" /\ Prec(e.op) <= Prec(expr.op)
                 THEN <<"(">> \o canonical_text(e) \o <<")">>
                 ELSE canonical_text(e)
         IN  operand(expr.l) \o OpText(expr.op) \o operand(expr.r)

RECURSIVE grouped_text(_)
\* The text with parentheses around every operand, a primitive included
grouped_text(expr) ==
    IF expr.kind = "prim" THEN PrimText(expr.prim) \o <<"(">> \o expr.token \o <<")">>
    ELSE <<"(">> \o grouped_text(expr.l) \o <<")">> \o OpText(expr.op)
           \o <<"(">> \o grouped_text(expr.r) \o <<")">>

RECURSIVE flat_text(_)
\* The text without any parentheses around an operand
flat_text(expr) ==
    IF expr.kind = "prim" THEN PrimText(expr.prim) \o <<"(">> \o expr.token \o <<")">>
    ELSE flat_text(expr.l) \o OpText(expr.op) \o flat_text(expr.r)

\* parse(&input)
ParseText ==
    /\ parse_pc = "ready"
    /\ parse_result' = parse(parse_input)
    /\ parse_pc' = "done"
    /\ UNCHANGED <<the_store, storeDriverVars, queueVars, simVars, notifyVars, cloneVars,
                   parse_input, parse_src>>

NextParse == ParseText

InitParse ==
    /\ the_store = EmptyStore
    /\ StoreDriverIdle
    /\ QueueInit
    /\ SimIdle
    /\ NotifyIdle
    /\ CloneIdle
    /\ parse_pc = "ready"
    /\ parse_result = NoParse
    /\ \/ \E w \in PieceTexts :
            parse_input = w /\ parse_src = [kind |-> "text"]
       \/ \E e \in ParseExprs :
            parse_input = canonical_text(e) /\ parse_src = [ast |-> e, kind |-> "canonical"]
       \/ \E e \in ParseExprs :
            parse_input = grouped_text(e) /\ parse_src = [ast |-> e, kind |-> "grouped"]
       \/ \E e \in ParseExprs :
            parse_input = flat_text(e) /\ parse_src = [ast |-> e, kind |-> "flat"]

SpecParse == InitParse /\ [][NextParse]_vars

(***************************************************************************)
(* Claims on the parser.  The grammar is taken as it stands: the            *)
(* expressions a text derives, one set per nonterminal, by trying every     *)
(* place where the text could be split at an operator.                      *)
(***************************************************************************)
IsToken(w) ==
    /\ w # <<>>
    /\ w[1] \in LowerChars
    /\ \A j \in 2..Len(w) : w[j] \in TokenChars

\* prim := ("tell"|"ask"|"get"|"nask") "(" token ")"
DerivePrim(w) ==
    { BachtAstPrimitive(p, SubSeq(w, Len(PrimText(p)) + 2, Len(w) - 1)) :
        p \in { q \in Prims :
                  /\ Len(w) >= Len(PrimText(q)) + 3
                  /\ SubSeq(w, 1, Len(PrimText(q))) = PrimText(q)
                  /\ w[Len(PrimText(q)) + 1] = "("
                  /\ w[Len(w)] = ")"
                  /\ IsToken(SubSeq(w, Len(PrimText(q)) + 2, Len(w) - 1)) } }

RECURSIVE DeriveChoice(_)
RECURSIVE DerivePara(_)
RECURSIVE DeriveSeq(_)
RECURSIVE DeriveSimple(_)

\* choice := para ("+" choice)?
DeriveChoice(w) ==
    DerivePara(w) \cup
    UNION { UNION { {BachtAstAgent("+", l, r) : r \in DeriveChoice(SubSeq(w, i + 1, Len(w)))}
                    : l \in DerivePara(SubSeq(w, 1, i - 1)) }
            : i \in {j \in 1..Len(w) : w[j] = "+"} }

\* para := seq ("||" para)?
DerivePara(w) ==
    DeriveSeq(w) \cup
    UNION { UNION { {BachtAstAgent("||", l, r) : r \in DerivePara(SubSeq(w, i + 2, Len(w)))}
                    : l \in DeriveSeq(SubSeq(w, 1, i - 1)) }
            : i \in {j \in 1..(Len(w) - 1) : w[j] = "|" /\ w[j + 1] = "|"} }

\* seq := simple (";" seq)?
DeriveSeq(w) ==
    DeriveSimple(w) \cup
    UNION { UNION { {BachtAstAgent(";", l, r) : r \in DeriveSeq(SubSeq(w, i + 1, Len(w)))}
                    : l \in DeriveSimple(SubSeq(w, 1, i - 1)) }
            : i \in {j \in 1..Len(w) : w[j] = ";"} }

\* simple := prim | "(" choice ")"
DeriveSimple(w) ==
    DerivePrim(w) \cup
    (IF Len(w) >= 2 /\ w[1] = "(" /\ w[Len(w)] = ")"
       THEN DeriveChoice(SubSeq(w, 2, Len(w) - 1))
       ELSE {})

RECURSIVE NoEmptyAgent(_)
NoEmptyAgent(e) ==
    /\ e.kind \in {"prim", "op"}
    /\ e.kind = "op" => NoEmptyAgent(e.l) /\ NoEmptyAgent(e.r)

\* A text without its parentheses
Unparenthesized(w) == SelectSeq(w, LAMBDA c : c \notin {"(", ")"})

\* How many times the character c is in the text
Occurrences(w, c) == Cardinality({i \in DOMAIN w : w[i] = c})

\* C28: the expression parse returns for a text it accepts is the one the grammar
\* derives from that text (";" above "||" above "+", each leaning to the right), it is
\* made of primitives and operators only, its leaves and operators are those of the
\* text in the text's order, and parentheses add nothing to it: a text with every
\* operand in parentheses gives back the expression it was written from.
C28_ParserResult ==
    (parse_pc = "done" /\ parse_result.ok) =>
       /\ DeriveChoice(parse_input) = {parse_result.ast}
       /\ NoEmptyAgent(parse_result.ast)
       /\ Unparenthesized(flat_text(parse_result.ast)) = Unparenthesized(parse_input)
       /\ parse_src.kind = "grouped" => parse_result.ast = parse_src.ast

\* Witness of C28: tell(a);nask(bB_1);tell(a)+tell(a) was parsed into the choice of a
\* sequence leaning to the right and a primitive
C28_Witness ==
    LET a == BachtAstPrimitive("tell", <<"a">>)
        b == BachtAstPrimitive("nask", <<"b", "B", "_", "1">>)
    IN  /\ parse_pc = "done"
        /\ parse_src.kind = "flat"
        /\ parse_input = TellA \o <<";">> \o NaskB \o <<"+">> \o TellA
        /\ parse_result = ParseOk(BachtAstAgent("+", BachtAstAgent(";", a, b), a))

\* C29: parse returns an error for every text the grammar does not derive in its
\* entirety: in particular the empty text, a text with a character that is in no
\* production (a blank, an unknown operator), and a text whose parentheses do not
\* balance.
C29_ParserRejects ==
    parse_pc = "done" =>
       /\ DeriveChoice(parse_input) = {} =>
            (~parse_result.ok /\ parse_result.err \in {"error", "incomplete"})
       /\ parse_input = <<>> => ~parse_result.ok
       /\ (\E i \in DOMAIN parse_input : parse_input[i] \in {" ", "?"}) => ~parse_result.ok
       /\ Occurrences(parse_input, "(") # Occurrences(parse_input, ")") => ~parse_result.ok

\* Witness of C29: a complete agent followed by more text was refused
C29_Witness ==
    /\ parse_pc = "done"
    /\ parse_input = TellA \o NaskB
    /\ parse(TellA).ok
    /\ ~parse_result.ok

\* C30: the canonical text of an expression parses back to that expression
C30_RoundTrip ==
    (parse_pc = "done" /\ parse_src.kind = "canonical") =>
       parse_result = ParseOk(parse_src.ast)

\* Witness of C30: an expression whose canonical text needs parentheses, (a+b);a,
\* came back from its text
C30_Witness ==
    LET a == BachtAstPrimitive("tell", <<"a">>)
        b == BachtAstPrimitive("nask", <<"b", "B", "_", "1">>)
    IN  /\ parse_pc = "done"
        /\ parse_src = [ast |-> BachtAstAgent(";", BachtAstAgent("+", a, b), a), kind |-> "canonical"]
        /\ parse_input = <<"(">> \o TellA \o <<"+">> \o NaskB \o <<")", ";">> \o TellA
        /\ parse_result = ParseOk(parse_src.ast)

(***************************************************************************)
(* Claims on the simulator's steps and runs                                 *)
(***************************************************************************)
AskThenTell == BachtAstAgent(";", BachtAstPrimitive("ask", "a"), BachtAstPrimitive("tell", "a"))

\* C31: a step that returns (false, _) leaves the store as it found it: it invoked at
\* least one primitive, every primitive it invoked returned false and none of them
\* changed the store; so a run that returns Ok(false) on its first step leaves the
\* store as the run found it, and ask(a);tell(a) from the empty store returns
\* Ok(false) (the blackboard answering) with the store still empty.
C31_FailedStepFrame ==
    /\ StepFailed =>
         LET o == last_step.out IN
         /\ o.st = last_step.pre
         /\ the_store = last_step.pre
         /\ o.log # <<>>
         /\ \A i \in DOMAIN o.log :
               /\ o.log[i].ret = "false"
               /\ o.log[i].prim \in Prims
               /\ store_op(last_step.pre, o.log[i].prim, o.log[i].token)
                    = [st |-> last_step.pre, res |-> FALSE]
    /\ (sim_result = "Ok(false)" /\ last_step.n = 1) => the_store = init_store
    /\ (Scenario(AskThenTell, EmptyStore) /\ sim_pc = "done") =>
         /\ sim_result = "Ok(false)" \/ ReturnedErr
         /\ the_store = EmptyStore

\* Witness of C31: ask(a);tell(a) from the empty store has returned Ok(false) on its
\* first step, ask(a) being the one primitive invoked
C31_Witness ==
    /\ Scenario(AskThenTell, EmptyStore)
    /\ sim_result = "Ok(false)"
    /\ last_step.n = 1
    /\ invoked = <<Call("ask", "a", "false")>>
    /\ the_store = EmptyStore

TellThenAskB == BachtAstAgent(";", BachtAstPrimitive("tell", "a"), BachtAstPrimitive("ask", "b"))

SimTokens == {"a", "b", "bach", "rust"}

RECURSIVE StoreAfter(_, _)
\* The store st after the calls of log that returned true, in order
StoreAfter(st, log) ==
    IF log = <<>> THEN st
    ELSE StoreAfter(IF Head(log).ret = "true"
                      THEN store_op(st, Head(log).prim, Head(log).token).st
                      ELSE st,
                    Tail(log))

\* The calls of prim on t that returned true so far
Succeeded(prim, t) ==
    Len(SelectSeq(invoked, LAMBDA c : c.prim = prim /\ c.token = t /\ c.ret = "true"))

\* C32: nothing is rolled back: at every point of a run, and so when it has returned
\* Ok(false) or an error after some steps made progress, the store is the store the
\* run started from with every primitive that succeeded applied in order (each count
\* is the initial count plus the tells minus the gets that returned true);
\* tell(a);ask(b) from the empty store returns Ok(false) (the blackboard answering)
\* and leaves the count of a at 1.
C32_NoRollback ==
    /\ the_store = StoreAfter(init_store, invoked)
    /\ \A t \in SimTokens :
          /\ count(the_store, t).hi = 0
          /\ count(the_store, t).lo
                = count(init_store, t).lo + Succeeded("tell", t) - Succeeded("get", t)
    /\ (Scenario(TellThenAskB, EmptyStore) /\ sim_pc = "done") =>
         /\ sim_result = "Ok(false)" \/ ReturnedErr
         /\ sim_result = "Ok(false)" => count(the_store, "a") = u32(1)

\* Witness of C32: tell(a);ask(b) from the empty store has returned Ok(false) in its
\* second step, and the a told in the first step is still in the store
C32_Witness ==
    /\ Scenario(TellThenAskB, EmptyStore)
    /\ sim_result = "Ok(false)"
    /\ last_step.n = 2
    /\ invoked = <<Call("tell", "a", "true"), Call("ask", "b", "false")>>
    /\ count(the_store, "a") = u32(1)

NaskParAsk == BachtAstAgent("||", BachtAstPrimitive("nask", "a"), BachtAstPrimitive("ask", "a"))

RECURSIVE ChoiceFree(_)
\* No "+" in the expression e
ChoiceFree(e) ==
    IF e.kind # "op" THEN TRUE
    ELSE e.op # "+" /\ ChoiceFree(e.l) /\ ChoiceFree(e.r)

RECURSIVE LeafCount(_, _, _)
\* How many times the primitive prim(t) occurs in the expression e
LeafCount(e, prim, t) ==
    IF e.kind = "prim" THEN (IF e.prim = prim /\ e.token = t THEN 1 ELSE 0)
    ELSE IF e.kind = "op" THEN LeafCount(e.l, prim, t) + LeafCount(e.r, prim, t)
    ELSE 0

\* C33: for an agent without "+", no primitive succeeds more often than it occurs in
\* the agent, what is left of the agent plus what succeeded is the agent, and the run
\* has returned Ok(true) only when every primitive of the agent was invoked
\* successfully exactly once; a branch of "||" that cannot progress makes the run
\* return Ok(false) although the other branch completed: nask(a)||ask(a) from the
\* empty store returns Ok(false) (the blackboard answering) after nask(a) succeeded
\* once and ask(a) never.
C33_ChoiceFreeCompletion ==
    /\ ChoiceFree(initial_agent) =>
         \A prim \in Prims \cup {"wrong"}, t \in SimTokens :
            /\ Succeeded(prim, t) <= LeafCount(initial_agent, prim, t)
            /\ sim_pc \in {"run", "done"} /\ sim_result # "Err" =>
                 Succeeded(prim, t) + LeafCount(current_agent, prim, t)
                   = LeafCount(initial_agent, prim, t)
            /\ sim_result = "Ok(true)" =>
                 Succeeded(prim, t) = LeafCount(initial_agent, prim, t)
    /\ (Scenario(NaskParAsk, EmptyStore) /\ sim_pc = "done") =>
         /\ sim_result = "Ok(false)" \/ ReturnedErr
         /\ sim_result = "Ok(false)" =>
              /\ Succeeded("nask", "a") = 1
              /\ Succeeded("ask", "a") = 0
              /\ current_agent = BachtAstPrimitive("ask", "a")

\* Witness of C33: in nask(a)||ask(a) from the empty store the toss put ask(a) first,
\* it failed, nask(a) succeeded, and the next step failed on ask(a): Ok(false)
C33_Witness ==
    /\ Scenario(NaskParAsk, EmptyStore)
    /\ sim_result = "Ok(false)"
    /\ invoked = <<Call("ask", "a", "false"), Call("nask", "a", "true"),
                   Call("ask", "a", "false")>>

AskParAsk == BachtAstAgent("||", BachtAstPrimitive("ask", "a"), BachtAstPrimitive("ask", "b"))

RECURSIVE Frontier(_)
\* The primitives at the reduction frontier of e: the ones a step may invoke
Frontier(e) ==
    IF e.kind = "prim" THEN {e}
    ELSE IF e.kind # "op" THEN {}
    ELSE IF e.op = ";" THEN Frontier(e.l)
    ELSE Frontier(e.l) \cup Frontier(e.r)

\* Some primitive at the frontier of e succeeds on the store st
Reducible(e, st) ==
    \E p \in Frontier(e) : p.prim \in Prims /\ store_op(st, p.prim, p.token).res

\* C34: whether a step makes progress does not depend on the tosses: a step that
\* returned Ok made progress exactly when some primitive at the frontier of its input
\* succeeds on the store it started from, and every other outcome the same step could
\* have had (other tosses, the blackboard answering) has the same progress; so a
\* reducible agent is never reported as deadlocked, and ask(a)||ask(b) from the empty
\* store returns Ok(false) whatever the toss.
C34_ProgressIgnoresCoin ==
    /\ (last_step.n > 0 /\ last_step.out.status = "ok") =>
         /\ last_step.out.res <=> Reducible(last_step.input, last_step.pre)
         /\ \A o \in run_one(last_step.pre, last_step.input) :
               o.status = "ok" => o.res = last_step.out.res
    /\ sim_result = "Ok(false)" => ~Reducible(current_agent, the_store)
    /\ (Scenario(AskParAsk, EmptyStore) /\ sim_pc = "done") =>
         sim_result = "Ok(false)" \/ ReturnedErr

\* Witness of C34: in ask(a)||ask(b) from the empty store the toss put ask(b) first,
\* both failed and the run returned Ok(false)
C34_Witness ==
    /\ Scenario(AskParAsk, EmptyStore)
    /\ sim_result = "Ok(false)"
    /\ last_step.out.coins = <<FALSE>>
    /\ invoked = <<Call("ask", "b", "false"), Call("ask", "a", "false")>>

\* C35: the empty agent is never nested: every step of a run is made on an expression
\* without Empty (so never on Empty itself), the residual it returns is Empty itself
\* or an expression without Empty, a residual returned without progress is never
\* Empty, and no step, whatever its tosses were, reached the "Unknown agent" panic.
C35_EmptyNeverNested ==
    /\ sim_pc = "run" => NoEmptyAgent(current_agent)
    /\ sim_pc # "panic" /\ sim_result # "panic"
    /\ last_step.n > 0 =>
         LET o == last_step.out IN
         /\ NoEmptyAgent(last_step.input)
         /\ o.status # "panic"
         /\ o.status = "ok" =>
              /\ o.agent = BachtAstEmptyAgent \/ NoEmptyAgent(o.agent)
              /\ ~o.res => o.agent # BachtAstEmptyAgent

\* Witness of C35: the first step of L;R ran L to its end and returned R itself, not
\* Op(";", Empty, R), and the second step ran R to its end
C35_Witness ==
    /\ IsOp(initial_agent, ";")
    /\ initial_agent.l.kind = "prim"
    /\ last_step.n = 2
    /\ last_step.input = initial_agent.r
    /\ last_step.out.status = "ok"
    /\ last_step.out.res
    /\ last_step.out.agent = BachtAstEmptyAgent
    /\ sim_result = "Ok(true)"

RECURSIVE FailedResidual(_, _)
\* The residual of a failed step on an operator whose first-tried operand left r1 and
\* whose other operand is e2: [agent, rest], rest being the tosses not yet used
FailedSecond(op, r1, r2) ==
    [agent |-> BachtAstAgent(op, r1.agent, r2.agent), rest |-> r2.rest]

FailedFirst(op, r1, e2) == FailedSecond(op, r1, FailedResidual(e2, r1.rest))

FailedSeq(r1, right) ==
    [agent |-> BachtAstAgent(";", r1.agent, right), rest |-> r1.rest]

\* The expression a failed step on e returns under the tosses coins: at each "||" and
\* "+" the operands in the order the toss chose, at ";" the operands as they are
FailedResidual(e, coins) ==
    IF e.kind # "op" THEN [agent |-> e, rest |-> coins]
    ELSE IF e.op = ";" THEN FailedSeq(FailedResidual(e.l, coins), e.r)
    ELSE IF coins = <<>> THEN [agent |-> e, rest |-> coins]
    ELSE IF Head(coins) THEN FailedFirst(e.op, FailedResidual(e.l, Tail(coins)), e.r)
    ELSE FailedFirst(e.op, FailedResidual(e.r, Tail(coins)), e.l)

\* C36: when a step returns (false, E') for the input E, E' has the primitives of E,
\* each as often, and is E with the operands of every "||" and "+" that was tried put
\* in the order its toss chose (so E' is E when every toss chose (L, R)); the
\* operands of ";" are never swapped: the right operand is returned as it was.
C36_FailedResidual ==
    StepFailed =>
      LET o == last_step.out IN
      /\ o.agent = FailedResidual(last_step.input, o.coins).agent
      /\ FailedResidual(last_step.input, o.coins).rest = <<>>
      /\ \A prim \in Prims, t \in SimTokens :
            LeafCount(o.agent, prim, t) = LeafCount(last_step.input, prim, t)
      /\ IsOp(last_step.input, ";") =>
            /\ IsOp(o.agent, ";")
            /\ o.agent.r = last_step.input.r
      /\ (IsOp(last_step.input, "||") \/ IsOp(last_step.input, "+")) =>
            /\ o.coins # <<>>
            /\ o.agent.kind = "op"
            /\ o.agent.op = last_step.input.op

\* Witness of C36: a failed step on (L||R);S whose toss chose (R, L) returned
\* (R||L);S, S where it was
C36_Witness ==
    /\ StepFailed
    /\ IsOp(last_step.input, ";")
    /\ IsOp(last_step.input.l, "||")
    /\ last_step.input.l.l # last_step.input.l.r
    /\ last_step.out.coins = <<FALSE>>
    /\ last_step.out.agent =
         BachtAstAgent(";",
            BachtAstAgent("||", last_step.input.l.r, last_step.input.l.l),
            last_step.input.r)

RECURSIVE NumLeaves(_)
\* The number of primitives of the expression e
NumLeaves(e) ==
    IF e.kind = "prim" THEN 1
    ELSE IF e.kind = "op" THEN NumLeaves(e.l) + NumLeaves(e.r)
    ELSE 0

\* At most as many steps as the agent has primitives, each progressing step leaving
\* fewer primitives than it found, a step without progress ending the run
BoundedSteps ==
    /\ last_step.n + (IF sim_pc = "run" THEN NumLeaves(current_agent) ELSE 0)
         <= NumLeaves(initial_agent)
    /\ (last_step.n > 0 /\ last_step.out.status = "ok") =>
         IF last_step.out.res
           THEN NumLeaves(last_step.out.agent) < NumLeaves(last_step.input)
           ELSE sim_pc = "done" /\ sim_result = "Ok(false)"
    /\ sim_pc = "done" <=> sim_result \in {"Ok(true)", "Ok(false)", "Err"}

\* C37: run terminates: every step that makes progress leaves strictly fewer
\* primitives than it found and a step without progress ends the run, so a run of an
\* agent with n primitives makes at most n steps; and, every primitive being answered,
\* the run always returns.
C37_RunTerminates == []BoundedSteps /\ <>(sim_pc = "done")

\* Witness of C37: a run of an agent with three primitives has returned Ok(true) after
\* three steps, one primitive fewer at each
C37_Witness ==
    /\ NumLeaves(initial_agent) = 3
    /\ last_step.n = 3
    /\ sim_pc = "done"
    /\ sim_result = "Ok(true)"
    /\ Len(invoked) = 3

(***************************************************************************)
(* Claims on the worker's wakes and its stop                                *)
(***************************************************************************)
\* A wake is pending for the worker: it was woken and has not resumed yet, or the
\* Notify holds its permit
WakePending == "worker" \in notifier.woken \/ notifier.permit

\* C38: no wakeup is lost: whenever the worker is suspended in notify(), or has left
\* the drain loop and is about to call it, the queue is empty or a wake is pending
\* (with the stop flag unset as with it set); the Notify stores at most one wake
\* whatever the number of enqueues nobody waited for, and the worker it wakes goes
\* back to get_task, where it takes tasks until the queue is empty.
C38_NoLostWakeup ==
    /\ worker_pc \in {"notify", "notified_wait"} => (task_queue = <<>> \/ WakePending)
    /\ (worker_pc = "notified_wait" /\ ~safe_stop_signal /\ task_queue # <<>>) =>
         "worker" \in notifier.woken
    /\ notifier.permit \in BOOLEAN
    /\ notifier.woken \subseteq {"worker"}
    /\ (worker_pc = "notified_wait") <=>
         ("worker" \in notifier.woken \/ notifier.waiters = <<"worker">>)
    /\ worker_pc # "notified_wait" => notifier.waiters = <<>>

\* Witness of C38: two tasks were enqueued while the worker was suspended: the first
\* woke it, the second stored the permit, and both are still in the queue
C38_Witness ==
    /\ worker_pc = "notified_wait"
    /\ ~safe_stop_signal
    /\ Len(task_queue) = 2
    /\ "worker" \in notifier.woken
    /\ notifier.permit

\* C39: once the stop flag is set the worker dequeues at most one further task, and
\* none if it held a task when the flag was set; the worker returns only with the
\* flag set, having applied every task it dequeued; so the tasks after the first one
\* dequeued past the stop, and every task still in the queue when the worker has
\* returned, are never applied to the store.
C39_StopDequeuesAtMostOne ==
    /\ worker_pc = "returned" => safe_stop_signal
    /\ safe_stop_signal =>
         /\ Len(deq_log) <= stop_deq + 1
         /\ Len(apply_log) <= stop_deq + 1
         /\ stop_task # 0 => Len(deq_log) = stop_deq
         /\ \A id \in DOMAIN events : id > stop_deq + 1 => ~Dequeued(id) /\ ~Applied(id)
         /\ worker_pc = "get_task" => Len(deq_log) = stop_deq
    /\ worker_pc = "returned" =>
         /\ Len(apply_log) = Len(deq_log)
         /\ \A i \in DOMAIN task_queue : ~Applied(task_queue[i].id)

\* Witness of C39: the flag was set while the worker was between two tasks; it
\* dequeued and applied one more task and returned, leaving a task in the queue
C39_Witness ==
    /\ worker_pc = "returned"
    /\ stop_deq = 1
    /\ Len(deq_log) = 2
    /\ Applied(2)
    /\ Len(task_queue) = 1
    /\ ~Applied(3)

(***************************************************************************)
(* Claims on concurrent clients of one Blackboard                           *)
(***************************************************************************)
Min(a, b) == IF a <= b THEN a ELSE b

\* The get(t) tasks that were answered Ok(val)
GetsAnswered(t, val) ==
    {r.id : r \in {q \in replies : /\ q.id \in Among(DOMAIN events, "get", t)
                                   /\ q.result = [val |-> val, ok |-> TRUE]}}

\* Every tell(t) was sent before every get(t)
NoInterveningTell(t) ==
    \A i \in Among(DOMAIN events, "tell", t), j \in Among(DOMAIN events, "get", t) : i < j

\* C40: get is race-free between the clients of one Blackboard and its clones: no get
\* is answered with an error, the get(t) answered Ok(true) are never more than the
\* tell(t) sent, and when k tell(t), all applied (the count of t reached k), were
\* followed, with no tell(t) in between, by n get(t), all answered, exactly min(k, n)
\* of them were answered Ok(true), the others Ok(false), and the count of t is
\* k - min(k, n).
C40_ConcurrentGet ==
    \A t \in QueueTokens :
      LET k == Cardinality(Among(DOMAIN events, "tell", t))
          gets == Among(DOMAIN events, "get", t)
          n == Cardinality(gets)
      IN
      /\ \A r \in replies : r.id \in gets => r.result.ok
      /\ Cardinality(GetsAnswered(t, TRUE)) <= k
      /\ (/\ NoInterveningTell(t)
          /\ \A i \in Among(DOMAIN events, "tell", t) : Applied(i)
          /\ \A j \in gets : Replied(j)) =>
           /\ Cardinality(GetsAnswered(t, TRUE)) = Min(k, n)
           /\ Cardinality(GetsAnswered(t, FALSE)) = n - Min(k, n)
           /\ count(the_store, t) = u32(k - Min(k, n))

\* Witness of C40: after one tell(a), the original and its clone each sent a get(a),
\* the second before the first was answered; one was answered Ok(true), the other
\* Ok(false), and the count of a is 0
C40_Witness ==
    /\ events = <<Event("tell", "a"), Event("get", "a"), Event("get", "a")>>
    /\ Len(sent_by) = 3
    /\ sent_by[2].by # sent_by[3].by
    /\ 2 \notin sent_by[3].after
    /\ Cardinality(GetsAnswered("a", TRUE)) = 1
    /\ Cardinality(GetsAnswered("a", FALSE)) = 1
    /\ count(the_store, "a") = u32(0)

====
